---- MODULE Spec2Model ----
(***************************************************************************)
(* Quota, compliance and routing engine of the WABA sandbox:               *)
(* messaging-limit tracker, marketing engine, phone lifecycle store and    *)
(* webhook target resolver, with the HTTP handlers that drive them.        *)
(* Recipients (waId strings) are modelled as natural numbers; times are    *)
(* milliseconds as in the source.                                          *)
(***************************************************************************)
EXTENDS Integers, Naturals, Sequences, FiniteSets, TLC

VARIABLES
  now,           \* Date.now()
  lastResult,    \* the call made last at the current instant and what it returned
  states,        \* messagingLimits.ts: Map phoneId -> MessagingLimitState
  sendsMade,     \* number of direct registerSend calls made so far
  phoneNumbers,  \* webhookRouting.ts: Map id -> PhoneNumberConfig
  wabas,         \* webhookRouting.ts: Map wabaId -> WabaOverrideConfig
  runtimeConfig, \* config.ts: RuntimeConfig
  attemptsMade,  \* number of register/deregister calls made so far
  contacts,      \* marketing.ts: Map waId -> MarketingContact
  sends,         \* marketing.ts: the ledger of MarketingSendRecord
  frequencyBuckets, \* marketing.ts: Map (phoneId, to) -> MarketingSendRecord[]
  config,        \* marketing.ts: MarketingConfigState
  uncheckedPairs, \* history: the (phoneId, to) pairs that got a registerMarketingSend
                 \* that no allowing evaluateMarketingFrequency directly preceded
  configChanged, \* history: the frequency window or cap was changed after a send
  conversions,   \* marketing.ts: the ledger of MarketingConversionEvent
  policyContacts, \* policy.ts: Map waId -> ContactPolicy (contacts in the source)
  templates,     \* templates store: the MessageTemplate values in insertion order
  events,        \* eventStore: the SandboxEvent array
  inflight,      \* requests received and not yet handled: request id -> request
  responses,     \* request id -> the response its handler sent
  handlerLog,    \* history: request id -> what its handler observed
  subscribers,   \* eventStore: the Set of subscribers, in insertion order
  deliveries,    \* history: the calls made to subscribers, in order
  unsubscribed,  \* history: the subscribers whose unsubscribe function was called
  published      \* history: the number of addEvent calls made so far

limitVars == <<states, sendsMade>>
routingVars == <<phoneNumbers, wabas, runtimeConfig, attemptsMade>>
marketingVars ==
  <<contacts, sends, frequencyBuckets, config, uncheckedPairs, configChanged, conversions>>
storeVars == <<policyContacts, templates, events>>
requestVars == <<inflight, responses, handlerLog>>
busVars == <<subscribers, deliveries, unsubscribed, published>>
handlerVars == <<storeVars, requestVars, busVars>>
vars == <<now, lastResult, states, sendsMade, phoneNumbers, wabas, runtimeConfig,
          attemptsMade, contacts, sends, frequencyBuckets, config, uncheckedPairs,
          configChanged, conversions, policyContacts, templates, events, inflight, responses,
          handlerLog, subscribers, deliveries, unsubscribed, published>>

(* ---------------------------- bounds ----------------------------------- *)
\* sends that may be registered on one number on top of the initial history
MaxExtraSends == 3
\* fresh recipients (beyond those of the initial history) a request may name
MaxNewRecipients == 2

\* status updates the templates in the store may have received
MaxStatusUpdates == 2

\* events published to a log that started empty
MaxPublished == 250
\* event streams opened
MaxSubscribers == 3
\* events published while streams are watched
MaxObserved == 2
\* conversions recorded on top of the initial ledger
MaxConversions == 2

\* register/deregister calls made on top of the initial attempt history
MaxAttempts == 3
\* marketing sends registered in one run
MaxMarketingSends == 3
\* requests received in one run
MaxRequests == 2

(* ---------------------------- helpers ---------------------------------- *)
Range(s) == {s[i] : i \in 1..Len(s)}

\* objects with optional properties are records whose domain holds the
\* properties that are present
Has(obj, key) == key \in DOMAIN obj
\* obj.key = value
Put(obj, key, value) == [k \in DOMAIN obj \cup {key} |-> IF k = key THEN value ELSE obj[k]]
\* delete obj.key
Delete(obj, key) == [k \in DOMAIN obj \ {key} |-> obj[k]]
\* { ...a, ...b }
Spread(a, b) == [k \in DOMAIN a \cup DOMAIN b |-> IF k \in DOMAIN b THEN b[k] ELSE a[k]]
\* the empty object {}
EmptyObject == [k \in {} |-> ""]
\* null and undefined, as values of string-typed properties
Null == "null"
Undefined == "undefined"
\* a string | null | undefined value is truthy
IsTruthy(v) == v \notin {"", Null, Undefined}
\* obj?.key is truthy, for a string property
Truthy(obj, key) == Has(obj, key) /\ IsTruthy(obj[key])

HOUR_MS == 60 * 60 * 1000

(* ------------------------ state/messagingLimits.ts --------------------- *)
PhoneIds == {"p1", "p2"}
Tiers == {"TIER_250", "TIER_1K", "TIER_10K", "TIER_100K", "TIER_UNLIMITED"}
Categories == {"MARKETING", "UTILITY", "AUTHENTICATION", "UNKNOWN"}

DEFAULT_WINDOW_MS == 24 * 60 * 60 * 1000

\* Number.POSITIVE_INFINITY: a sentinel that no size reaches (see AtLeast)
POSITIVE_INFINITY == -1

\* costs in thousandths of a US dollar
CATEGORY_COST == [MARKETING |-> 50, UTILITY |-> 30, AUTHENTICATION |-> 20, UNKNOWN |-> 25]

TIER_LIMITS == [TIER_250 |-> 250, TIER_1K |-> 1000, TIER_10K |-> 10000,
                TIER_100K |-> 100000, TIER_UNLIMITED |-> POSITIVE_INFINITY]

\* size >= limit, where limit may be POSITIVE_INFINITY
AtLeast(size, limit) == limit # POSITIVE_INFINITY /\ size >= limit

freshState(phoneId) ==
  [phoneId |-> phoneId, tier |-> "TIER_1K", windowMs |-> DEFAULT_WINDOW_MS,
   sends |-> <<>>, totalCostUsd |-> 0]

getOrCreateState(st, phoneId) ==
  IF phoneId \in DOMAIN st THEN st[phoneId] ELSE freshState(phoneId)

\* states.set(phoneId, s)
putState(st, phoneId, s) ==
  [q \in DOMAIN st \cup {phoneId} |-> IF q = phoneId THEN s ELSE st[q]]

\* state.sends.filter((e) => e.timestamp >= windowStart)
pruneSends(sendEvents, windowStart) ==
  SelectSeq(sendEvents, LAMBDA e : e.timestamp >= windowStart)

uniqueRecipients(sendEvents) == {sendEvents[i].to : i \in 1..Len(sendEvents)}


(* the clock: Date.now() read at a few instants around the window edges *)
Instants == {1, DEFAULT_WINDOW_MS + 1, DEFAULT_WINDOW_MS + 2}

Tick ==
  /\ \E t \in Instants : t > now /\ now' = t
  /\ lastResult' = [op |-> "none"]
  /\ UNCHANGED <<handlerVars, limitVars, routingVars, marketingVars>>

\* fresh recipients: ids above those of any initial history
NewRecipients == {TIER_LIMITS["TIER_100K"] + i : i \in 1..MaxNewRecipients}
SendRecipients == {1} \cup NewRecipients
\* the categories and tiers that requests name
SendCategories == {"UNKNOWN"}
\* the numbers whose limit is evaluated directly
LimitPhones == {"p1"}
SetTiers == {"TIER_250", "TIER_UNLIMITED"}

\* the limit check compares with > instead of >=
evaluateMessagingLimit_offByOne(st, phoneId, to, t) ==
  LET state == getOrCreateState(st, phoneId)
      windowStart == t - state.windowMs
      pruned == pruneSends(state.sends, windowStart)
      uniq == uniqueRecipients(pruned)
      limit == TIER_LIMITS[state.tier]
      rejected == to \notin uniq /\ AtLeast(Cardinality(uniq), limit + 1)
  IN [st |-> putState(st, phoneId, [state EXCEPT !.sends = pruned]),
      result |-> [op |-> "evaluateMessagingLimit", phoneId |-> phoneId, to |-> to,
                  now |-> t, allowed |-> ~rejected,
                  reason |-> IF rejected
                             THEN "messaging_limit_reached_for_this_phone_number_in_current_24h_window"
                             ELSE "undefined",
                  tier |-> state.tier,
                  windowUniqueRecipients |-> Cardinality(uniq),
                  limitUniqueRecipients |-> limit]]

\* the limit check forgets that a repeat recipient is always admitted
evaluateMessagingLimit_noRepeat(st, phoneId, to, t) ==
  LET state == getOrCreateState(st, phoneId)
      windowStart == t - state.windowMs
      pruned == pruneSends(state.sends, windowStart)
      uniq == uniqueRecipients(pruned)
      limit == TIER_LIMITS[state.tier]
      rejected == AtLeast(Cardinality(uniq), limit)
  IN [st |-> putState(st, phoneId, [state EXCEPT !.sends = pruned]),
      result |-> [op |-> "evaluateMessagingLimit", phoneId |-> phoneId, to |-> to,
                  now |-> t, allowed |-> ~rejected,
                  reason |-> IF rejected
                             THEN "messaging_limit_reached_for_this_phone_number_in_current_24h_window"
                             ELSE "undefined",
                  tier |-> state.tier,
                  windowUniqueRecipients |-> Cardinality(uniq),
                  limitUniqueRecipients |-> limit]]

\* a rejected recipient is recorded as if the send had been made
evaluateMessagingLimit_countsAttempt(st, phoneId, to, t) ==
  LET state == getOrCreateState(st, phoneId)
      pruned == pruneSends(state.sends, t - state.windowMs)
      uniq == uniqueRecipients(pruned)
      rejected == to \notin uniq /\ AtLeast(Cardinality(uniq), TIER_LIMITS[state.tier])
      attempt == [to |-> to, category |-> "UNKNOWN", timestamp |-> t,
                  costUsd |-> CATEGORY_COST["UNKNOWN"]]
  IN [st |-> putState(st, phoneId,
                      [state EXCEPT !.sends = IF rejected THEN Append(pruned, attempt)
                                              ELSE pruned]),
      result |-> [op |-> "evaluateMessagingLimit", phoneId |-> phoneId, to |-> to,
                  now |-> t, allowed |-> ~rejected,
                  reason |-> IF rejected
                             THEN "messaging_limit_reached_for_this_phone_number_in_current_24h_window"
                             ELSE "undefined",
                  tier |-> state.tier,
                  windowUniqueRecipients |-> Cardinality(uniq),
                  limitUniqueRecipients |-> TIER_LIMITS[state.tier]]]

\* evaluateMessagingLimit: the state it leaves and the evaluation it returns
evaluateMessagingLimit(st, phoneId, to, t) ==
  LET state == getOrCreateState(st, phoneId)
      windowStart == t - state.windowMs
      pruned == pruneSends(state.sends, windowStart)
      uniq == uniqueRecipients(pruned)
      limit == TIER_LIMITS[state.tier]
      rejected == to \notin uniq /\ AtLeast(Cardinality(uniq), limit)
  IN [st |-> putState(st, phoneId, [state EXCEPT !.sends = pruned]),
      result |-> [op |-> "evaluateMessagingLimit", phoneId |-> phoneId, to |-> to,
                  now |-> t, allowed |-> ~rejected,
                  reason |-> IF rejected
                             THEN "messaging_limit_reached_for_this_phone_number_in_current_24h_window"
                             ELSE "undefined",
                  tier |-> state.tier,
                  windowUniqueRecipients |-> Cardinality(uniq),
                  limitUniqueRecipients |-> limit]]

\* the send is recorded and its cost is not added to the total
registerSend_unbilled(st, phoneId, to, category, t) ==
  LET state == getOrCreateState(st, phoneId)
      cost == CATEGORY_COST[category]
      event == [to |-> to, category |-> category, timestamp |-> t, costUsd |-> cost]
  IN putState(st, phoneId, [state EXCEPT !.sends = Append(@, event)])

\* registerSend: the state it leaves
registerSend(st, phoneId, to, category, t) ==
  LET state == getOrCreateState(st, phoneId)
      cost == CATEGORY_COST[category]
      event == [to |-> to, category |-> category, timestamp |-> t, costUsd |-> cost]
  IN putState(st, phoneId, [state EXCEPT !.sends = Append(@, event),
                                         !.totalCostUsd = @ + cost])

\* getMessagingSummaryForPhone: the state it leaves (a missing state is
\* created, the stored sends are filtered into a copy) and the summary
getMessagingSummaryForPhone(st, phoneId, t) ==
  LET state == getOrCreateState(st, phoneId)
      recent == pruneSends(state.sends, t - state.windowMs)
  IN [st |-> putState(st, phoneId, state),
      result |-> [phoneId |-> phoneId, tier |-> state.tier, windowMs |-> state.windowMs,
                  windowUniqueRecipients |-> Cardinality(uniqueRecipients(recent)),
                  limitUniqueRecipients |-> TIER_LIMITS[state.tier],
                  totalCostUsd |-> state.totalCostUsd]]

GetMessagingSummaryForPhone ==
  \E p \in LimitPhones :
    LET r == getMessagingSummaryForPhone(states, p, now) IN
    /\ states' = r.st
    /\ lastResult' = [op |-> "getMessagingSummaryForPhone", phoneId |-> p, now |-> now,
                      result |-> r.result]
    /\ UNCHANGED <<handlerVars, now, sendsMade, routingVars, marketingVars>>

EvaluateMessagingLimit ==
  \E p \in LimitPhones, to \in SendRecipients :
    LET r == evaluateMessagingLimit(states, p, to, now) IN
    /\ states' = r.st
    /\ lastResult' = r.result
    /\ UNCHANGED <<handlerVars, now, sendsMade, routingVars, marketingVars>>

\* whether the last call was an evaluate of (p, to) at time t that allowed it
AllowedJustBefore(p, to, t) ==
  /\ lastResult.op = "evaluateMessagingLimit"
  /\ lastResult.phoneId = p /\ lastResult.to = to /\ lastResult.now = t
  /\ lastResult.allowed

RegisterSend ==
  \E p \in LimitPhones, to \in SendRecipients, c \in SendCategories :
    /\ sendsMade < MaxExtraSends
    /\ states' = registerSend(states, p, to, c, now)
    /\ lastResult' = [op |-> "registerSend", phoneId |-> p, to |-> to, now |-> now,
                      checked |-> AllowedJustBefore(p, to, now)]
    /\ sendsMade' = sendsMade + 1
    /\ UNCHANGED <<handlerVars, now, routingVars, marketingVars>>

SetMessagingTier ==
  \E p \in LimitPhones, tier \in SetTiers :
    LET state == getOrCreateState(states, p) IN
    /\ states' = putState(states, p, [state EXCEPT !.tier = tier])
    /\ lastResult' = [op |-> "setMessagingTier", phoneId |-> p]
    /\ UNCHANGED <<handlerVars, now, sendsMade, routingVars, marketingVars>>

\* a history of k sends to recipients 1..k: recipient 1 at time 0, the rest at time 1
historyOf(k) ==
  [i \in 1..k |-> [to |-> i, category |-> "UNKNOWN",
                   timestamp |-> IF i = 1 THEN 0 ELSE 1,
                   costUsd |-> CATEGORY_COST["UNKNOWN"]]]

\* the tiers whose limit the initial histories reach
HistoryTiers == {"TIER_250"}

InitLimits ==
  /\ sendsMade = 0
  /\ \/ states = <<>>
     \/ \E tier \in {"TIER_10K", "TIER_100K"} :
          states = [p \in {"p1"} |-> [freshState(p) EXCEPT !.tier = tier]]
     \/ \E tier \in HistoryTiers : \E k \in {TIER_LIMITS[tier] - 1} :
          states = [p \in {"p1"} |->
                      [phoneId |-> p, tier |-> tier, windowMs |-> DEFAULT_WINDOW_MS,
                       sends |-> historyOf(k),
                       totalCostUsd |-> k * CATEGORY_COST["UNKNOWN"]]]

InitIdle == lastResult = [op |-> "none"] /\ now = 1

\* no request received yet
InitNoSubscribers == subscribers = <<>> /\ deliveries = <<>> /\ unsubscribed = {}

\* the process has just started
InitNoEvents == events = <<>> /\ published = 0

\* no request received yet, and no event stream opened
InitNoRequests ==
  inflight = <<>> /\ responses = <<>> /\ handlerLog = <<>> /\ InitNoSubscribers

\* the stores of policy.ts, the template store and the event store when the
\* process starts
InitStores == policyContacts = <<>> /\ templates = <<>> /\ InitNoEvents

(* ------------------------ state/webhookRouting.ts ---------------------- *)
REQUEST_WINDOW_MS == 72 * 60 * 60 * 1000
REQUEST_LIMIT == 10

WabaIds == {"w1", "w2"}
\* the one-time codes drawn by Math.random or given as codeOverride
Codes == {"111111", "222222"}

\* timestamps.filter((ts) => ts >= now - REQUEST_WINDOW_MS)
pruneWindow(timestamps, t) ==
  SelectSeq(timestamps, LAMBDA ts : ts >= t - REQUEST_WINDOW_MS)

\* Math.min(...attempts), for a non-empty array
MinOf(timestamps) ==
  CHOOSE m \in Range(timestamps) : \A x \in Range(timestamps) : m <= x

\* Math.max(0, x)
Max0(x) == IF x > 0 THEN x ELSE 0

\* wabas.set / phoneNumbers.set
PutEntry(map, key, value) ==
  [k \in DOMAIN map \cup {key} |-> IF k = key THEN value ELSE map[k]]

upsertWaba(ws, input) ==
  LET existing == IF input.wabaId \in DOMAIN ws THEN ws[input.wabaId]
                  ELSE [wabaId |-> input.wabaId]
      withUri == IF Has(input, "overrideCallbackUri")
                 THEN IF input.overrideCallbackUri = ""
                      THEN Delete(existing, "overrideCallbackUri")
                      ELSE Put(existing, "overrideCallbackUri", input.overrideCallbackUri)
                 ELSE existing
      withToken == IF Has(input, "verifyToken")
                   THEN IF input.verifyToken = ""
                        THEN Delete(withUri, "verifyToken")
                        ELSE Put(withUri, "verifyToken", input.verifyToken)
                   ELSE withUri
  IN PutEntry(ws, input.wabaId, withToken)

newPhone(input, t) ==
  [id |-> input.id,
   displayPhoneNumber |-> input.displayPhoneNumber,
   verificationStatus |-> "UNVERIFIED",
   qualityRating |-> "NA",
   accountMode |-> "SANDBOX",
   lastOnboardedTime |-> t,
   identityKeyCheckEnabled |-> FALSE,
   registered |-> FALSE,
   registerRequests |-> <<>>,
   deregisterRequests |-> <<>>,
   conversationalAutomation |->
     [enable_welcome_message |-> FALSE, commands |-> <<>>, prompts |-> <<>>]]

\* copies input.key onto the phone when the input has it
copyIfGiven(phone, input, key) ==
  IF Has(input, key) THEN Put(phone, key, input[key]) ELSE phone

upsertPhoneNumber(pn, input, t) ==
  LET phone0 == IF input.id \in DOMAIN pn THEN pn[input.id] ELSE newPhone(input, t)
      phone1 == Put(phone0, "displayPhoneNumber", input.displayPhoneNumber)
      phone2 == copyIfGiven(phone1, input, "wabaId")
      phone3 == IF Has(input, "webhookConfiguration")
                THEN Put(phone2, "webhookConfiguration",
                         Spread(IF Has(phone2, "webhookConfiguration")
                                THEN phone2.webhookConfiguration ELSE EmptyObject,
                                input.webhookConfiguration))
                ELSE phone2
      phone4 == copyIfGiven(phone3, input, "verifiedName")
      phone5 == copyIfGiven(phone4, input, "qualityRating")
      phone6 == copyIfGiven(phone5, input, "accountMode")
  IN PutEntry(pn, input.id, phone6)

\* the phone after requestPhoneVerificationCode, for a phone that exists
requestPhoneVerificationCode(phone, code, method, language, t) ==
  Put(Put(phone, "pendingVerificationCode",
          [code |-> code, method |-> method, language |-> language, requestedAt |-> t]),
      "verificationStatus", "PENDING")

\* any code is accepted while a code is pending
codeMatches_anyCode(pn, id, code) ==
  /\ id \in DOMAIN pn
  /\ Has(pn[id], "pendingVerificationCode")

\* whether verifyPhoneNumberCode accepts the code
codeMatches(pn, id, code) ==
  /\ id \in DOMAIN pn
  /\ Has(pn[id], "pendingVerificationCode")
  /\ pn[id].pendingVerificationCode.code = code

\* the verified phone keeps the code it was verified with
verifyPhoneNumberCode_keepsCode(phone) == Put(phone, "verificationStatus", "VERIFIED")

\* the phone after a successful verifyPhoneNumberCode
verifyPhoneNumberCode(phone) ==
  Delete(Put(phone, "verificationStatus", "VERIFIED"), "pendingVerificationCode")

\* String.prototype.toUpperCase, on the region codes that requests name
toUpperCase(str) == IF str = "us" THEN "US" ELSE IF str = "br" THEN "BR" ELSE str

\* the throttle compares with > instead of >=
registerPhoneNumber_offByOne(phone, params, t) ==
  LET attempts == pruneWindow(phone.registerRequests, t) IN
  IF Len(attempts) > REQUEST_LIMIT
  THEN [phone |-> Put(phone, "registerRequests", attempts),
        result |-> [ok |-> FALSE, error |-> "rate_limited",
                    retryAfterMs |-> Max0(MinOf(attempts) + REQUEST_WINDOW_MS - t),
                    attemptsInWindow |-> Len(attempts)]]
  ELSE LET phone1 == Put(phone, "registerRequests", Append(attempts, t))
           phone2 == Put(phone1, "twoStepVerificationPin", params.pin)
           phone3 == Put(phone2, "registered", TRUE)
           phone4 == IF Truthy(params, "dataLocalizationRegion")
                     THEN Put(phone3, "dataLocalizationRegion",
                              toUpperCase(params.dataLocalizationRegion))
                     ELSE Delete(phone3, "dataLocalizationRegion")
       IN [phone |-> phone4, result |-> [ok |-> TRUE]]

\* a rejected register attempt is recorded in the history all the same
registerPhoneNumber_recordsRejected(phone, params, t) ==
  LET attempts == pruneWindow(phone.registerRequests, t) IN
  IF Len(attempts) >= REQUEST_LIMIT
  THEN [phone |-> Put(phone, "registerRequests", Append(attempts, t)),
        result |-> [ok |-> FALSE, error |-> "rate_limited",
                    retryAfterMs |-> Max0(MinOf(attempts) + REQUEST_WINDOW_MS - t),
                    attemptsInWindow |-> Len(attempts)]]
  ELSE LET phone1 == Put(phone, "registerRequests", Append(attempts, t))
           phone2 == Put(phone1, "twoStepVerificationPin", params.pin)
           phone3 == Put(phone2, "registered", TRUE)
           phone4 == IF Truthy(params, "dataLocalizationRegion")
                     THEN Put(phone3, "dataLocalizationRegion",
                              toUpperCase(params.dataLocalizationRegion))
                     ELSE Delete(phone3, "dataLocalizationRegion")
       IN [phone |-> phone4, result |-> [ok |-> TRUE]]

\* register and deregister attempts are counted against one shared limit
registerPhoneNumber_sharedThrottle(phone, params, t) ==
  LET attempts == pruneWindow(phone.registerRequests, t)
      both == attempts \o pruneWindow(phone.deregisterRequests, t)
  IN
  IF Len(both) >= REQUEST_LIMIT
  THEN [phone |-> Put(phone, "registerRequests", attempts),
        result |-> [ok |-> FALSE, error |-> "rate_limited",
                    retryAfterMs |-> Max0(MinOf(both) + REQUEST_WINDOW_MS - t),
                    attemptsInWindow |-> Len(both)]]
  ELSE LET phone1 == Put(phone, "registerRequests", Append(attempts, t))
           phone2 == Put(phone1, "twoStepVerificationPin", params.pin)
           phone3 == Put(phone2, "registered", TRUE)
           phone4 == IF Truthy(params, "dataLocalizationRegion")
                     THEN Put(phone3, "dataLocalizationRegion",
                              toUpperCase(params.dataLocalizationRegion))
                     ELSE Delete(phone3, "dataLocalizationRegion")
       IN [phone |-> phone4, result |-> [ok |-> TRUE]]

\* deregistration forgets the two-step PIN as well
deregisterPhoneNumber_clearsPin(phone, t) ==
  LET attempts == pruneWindow(phone.deregisterRequests, t) IN
  IF Len(attempts) >= REQUEST_LIMIT
  THEN [phone |-> Put(phone, "deregisterRequests", attempts),
        result |-> [ok |-> FALSE, error |-> "rate_limited",
                    retryAfterMs |-> Max0(MinOf(attempts) + REQUEST_WINDOW_MS - t),
                    attemptsInWindow |-> Len(attempts)]]
  ELSE LET phone1 == Put(phone, "deregisterRequests", Append(attempts, t))
           phone2 == Put(phone1, "registered", FALSE)
           phone3 == Delete(Delete(phone2, "dataLocalizationRegion"),
                            "twoStepVerificationPin")
       IN [phone |-> phone3, result |-> [ok |-> TRUE]]

\* registerPhoneNumber, for a phone that exists: the phone it leaves and its result
registerPhoneNumber(phone, params, t) ==
  LET attempts == pruneWindow(phone.registerRequests, t) IN
  IF Len(attempts) >= REQUEST_LIMIT
  THEN [phone |-> Put(phone, "registerRequests", attempts),
        result |-> [ok |-> FALSE, error |-> "rate_limited",
                    retryAfterMs |-> Max0(MinOf(attempts) + REQUEST_WINDOW_MS - t),
                    attemptsInWindow |-> Len(attempts)]]
  ELSE LET phone1 == Put(phone, "registerRequests", Append(attempts, t))
           phone2 == Put(phone1, "twoStepVerificationPin", params.pin)
           phone3 == Put(phone2, "registered", TRUE)
           phone4 == IF Truthy(params, "dataLocalizationRegion")
                     THEN Put(phone3, "dataLocalizationRegion",
                              toUpperCase(params.dataLocalizationRegion))
                     ELSE Delete(phone3, "dataLocalizationRegion")
       IN [phone |-> phone4, result |-> [ok |-> TRUE]]

\* deregisterPhoneNumber, for a phone that exists
deregisterPhoneNumber(phone, t) ==
  LET attempts == pruneWindow(phone.deregisterRequests, t) IN
  IF Len(attempts) >= REQUEST_LIMIT
  THEN [phone |-> Put(phone, "deregisterRequests", attempts),
        result |-> [ok |-> FALSE, error |-> "rate_limited",
                    retryAfterMs |-> Max0(MinOf(attempts) + REQUEST_WINDOW_MS - t),
                    attemptsInWindow |-> Len(attempts)]]
  ELSE LET phone1 == Put(phone, "deregisterRequests", Append(attempts, t))
           phone2 == Put(phone1, "registered", FALSE)
           phone3 == Delete(phone2, "dataLocalizationRegion")
       IN [phone |-> phone3, result |-> [ok |-> TRUE]]

\* the result null of resolveWebhookTarget
NullTarget == [isNull |-> TRUE]

\* the WABA of the phone is consulted before the phone's own override
resolveWebhookTarget_wabaFirst(pn, ws, cfg, opts) ==
  LET known == Truthy(opts, "phoneNumberId") /\ opts.phoneNumberId \in DOMAIN pn
      phone == pn[opts.phoneNumberId]
      phoneOverride ==
        known /\ Has(phone, "webhookConfiguration")
              /\ Truthy(phone.webhookConfiguration, "overrideCallbackUri")
      phoneWaba ==
        known /\ Truthy(phone, "wabaId") /\ phone.wabaId \in DOMAIN ws
              /\ Truthy(ws[phone.wabaId], "overrideCallbackUri")
      givenWaba ==
        Truthy(opts, "wabaId") /\ opts.wabaId \in DOMAIN ws
              /\ Truthy(ws[opts.wabaId], "overrideCallbackUri")
  IN IF phoneWaba
     THEN [url |-> ws[phone.wabaId].overrideCallbackUri, source |-> "waba",
           phoneId |-> phone.id, wabaId |-> phone.wabaId]
     ELSE IF phoneOverride
     THEN [url |-> phone.webhookConfiguration.overrideCallbackUri,
           source |-> "phone", phoneId |-> phone.id]
     ELSE IF givenWaba
     THEN [url |-> ws[opts.wabaId].overrideCallbackUri, source |-> "waba",
           wabaId |-> ws[opts.wabaId].wabaId]
     ELSE IF IsTruthy(cfg.targetWebhookUrl)
     THEN [url |-> cfg.targetWebhookUrl, source |-> "app"]
     ELSE NullTarget

\* the global default is consulted before the WABA given as argument
resolveWebhookTarget_globalFirst(pn, ws, cfg, opts) ==
  LET known == Truthy(opts, "phoneNumberId") /\ opts.phoneNumberId \in DOMAIN pn
      phone == pn[opts.phoneNumberId]
      phoneOverride ==
        known /\ Has(phone, "webhookConfiguration")
              /\ Truthy(phone.webhookConfiguration, "overrideCallbackUri")
      phoneWaba ==
        known /\ Truthy(phone, "wabaId") /\ phone.wabaId \in DOMAIN ws
              /\ Truthy(ws[phone.wabaId], "overrideCallbackUri")
      givenWaba ==
        Truthy(opts, "wabaId") /\ opts.wabaId \in DOMAIN ws
              /\ Truthy(ws[opts.wabaId], "overrideCallbackUri")
  IN IF phoneOverride
     THEN [url |-> phone.webhookConfiguration.overrideCallbackUri,
           source |-> "phone", phoneId |-> phone.id]
     ELSE IF phoneWaba
     THEN [url |-> ws[phone.wabaId].overrideCallbackUri, source |-> "waba",
           phoneId |-> phone.id, wabaId |-> phone.wabaId]
     ELSE IF IsTruthy(cfg.targetWebhookUrl)
     THEN [url |-> cfg.targetWebhookUrl, source |-> "app"]
     ELSE IF givenWaba
     THEN [url |-> ws[opts.wabaId].overrideCallbackUri, source |-> "waba",
           wabaId |-> ws[opts.wabaId].wabaId]
     ELSE NullTarget

resolveWebhookTarget(pn, ws, cfg, opts) ==
  LET known == Truthy(opts, "phoneNumberId") /\ opts.phoneNumberId \in DOMAIN pn
      phone == pn[opts.phoneNumberId]
      phoneOverride ==
        known /\ Has(phone, "webhookConfiguration")
              /\ Truthy(phone.webhookConfiguration, "overrideCallbackUri")
      phoneWaba ==
        known /\ Truthy(phone, "wabaId") /\ phone.wabaId \in DOMAIN ws
              /\ Truthy(ws[phone.wabaId], "overrideCallbackUri")
      givenWaba ==
        Truthy(opts, "wabaId") /\ opts.wabaId \in DOMAIN ws
              /\ Truthy(ws[opts.wabaId], "overrideCallbackUri")
      withWaba(result) ==
        IF Truthy(phone, "wabaId") THEN Put(result, "wabaId", phone.wabaId) ELSE result
  IN IF phoneOverride
     THEN withWaba([url |-> phone.webhookConfiguration.overrideCallbackUri,
                    source |-> "phone", phoneId |-> phone.id])
     ELSE IF phoneWaba
     THEN withWaba([url |-> ws[phone.wabaId].overrideCallbackUri,
                    source |-> "waba", phoneId |-> phone.id])
     ELSE IF givenWaba
     THEN [url |-> ws[opts.wabaId].overrideCallbackUri, source |-> "waba",
           wabaId |-> ws[opts.wabaId].wabaId]
     ELSE IF IsTruthy(cfg.targetWebhookUrl)
     THEN IF IsTruthy(cfg.webhookAppSecret)
          THEN [url |-> cfg.targetWebhookUrl, source |-> "app",
                appSecret |-> cfg.webhookAppSecret]
          ELSE [url |-> cfg.targetWebhookUrl, source |-> "app"]
     ELSE NullTarget

(* ------------------------------ config.ts ------------------------------ *)
initialRuntimeConfig ==
  [verifyToken |-> "sandbox-verify-token",
   targetWebhookUrl |-> Null,
   auth |-> [mode |-> "none", jwtSecret |-> "sandbox-secret",
             jwtIssuer |-> "waba-sandbox", jwtAudience |-> "sandbox-client"],
   webhookAppSecret |-> Null]

\* copies patch.key when it is a string, or null where null is accepted
patchString(cfg, patch, key, nullToo) ==
  IF Has(patch, key) /\ patch[key] # Undefined /\ (nullToo \/ patch[key] # Null)
  THEN Put(cfg, key, patch[key]) ELSE cfg

\* copies a non-empty string authPatch.key
patchAuth(auth, authPatch, key) ==
  IF Truthy(authPatch, key) THEN Put(auth, key, authPatch[key]) ELSE auth

updateConfig(cfg, patch) ==
  LET c1 == patchString(cfg, patch, "verifyToken", FALSE)
      c2 == patchString(c1, patch, "targetWebhookUrl", TRUE)
      c3 == patchString(c2, patch, "webhookAppSecret", TRUE)
      auth1 == IF Has(patch, "auth") /\ Has(patch.auth, "mode")
                  /\ patch.auth.mode \in {"none", "jwt"}
               THEN Put(c3.auth, "mode", patch.auth.mode) ELSE c3.auth
      auth2 == patchAuth(auth1, IF Has(patch, "auth") THEN patch.auth ELSE EmptyObject,
                         "jwtSecret")
      auth3 == patchAuth(auth2, IF Has(patch, "auth") THEN patch.auth ELSE EmptyObject,
                         "jwtIssuer")
      auth4 == patchAuth(auth3, IF Has(patch, "auth") THEN patch.auth ELSE EmptyObject,
                         "jwtAudience")
  IN IF Has(patch, "auth") THEN Put(c3, "auth", auth4) ELSE c3

InitRouting ==
  /\ phoneNumbers = <<>>
  /\ wabas = <<>>
  /\ runtimeConfig = initialRuntimeConfig
  /\ attemptsMade = 0

(* --------------------------- state/marketing.ts ------------------------ *)
OptInStatuses == {"opted_in", "opted_out", "unknown"}

initialMarketingConfig ==
  [frequencyWindowMs |-> 24 * 60 * 60 * 1000, maxSendsPerWindow |-> 1, requireOptIn |-> TRUE]

getFrequencyKey(phoneId, to) == <<phoneId, to>>

\* the two numbers of a patch that are not finite: Infinity, which JSON.parse
\* gives for 1e999, and NaN; they lie beyond every finite number of the model
Infinity == 2147483647
NaN == -2147483647

\* Number.isFinite
isFinite(value) == value \notin {Infinity, NaN}

\* clampPositive
clampPositive(value, fallback) ==
  IF ~isFinite(value) THEN fallback
  ELSE IF value <= 0 THEN fallback
  ELSE value

\* Math.floor of the number halves / 2; Infinity and NaN stay what they are
FloorOfHalves(halves) == IF isFinite(halves) THEN halves \div 2 ELSE halves

\* Math.max(1, x), which is NaN for NaN
Max1(x) == IF x = NaN THEN NaN ELSE IF x > 1 THEN x ELSE 1

\* input.key ?? existing?.key, for a string property; Undefined when neither has it
inputOrExisting(input, cs, key) ==
  IF Has(input, key) THEN input[key]
  ELSE IF input.waId \in DOMAIN cs /\ Has(cs[input.waId], key) THEN cs[input.waId][key]
  ELSE Undefined

upsertMarketingContact(cs, input, t) ==
  LET status == IF inputOrExisting(input, cs, "status") = Undefined THEN "unknown"
                ELSE inputOrExisting(input, cs, "status")
      contact0 == [waId |-> input.waId, status |-> status, updatedAt |-> t]
      source == inputOrExisting(input, cs, "source")
      contact1 == IF source # Undefined THEN Put(contact0, "source", source) ELSE contact0
      note == inputOrExisting(input, cs, "note")
      contact2 == IF note # Undefined THEN Put(contact1, "note", note) ELSE contact1
  IN PutEntry(cs, input.waId, contact2)

\* unknown contacts are allowed whatever requireOptIn is
evaluateMarketingEligibility_lenient(cs, cfg, waId) ==
  IF waId \notin DOMAIN cs
  THEN [waId |-> waId, status |-> "unknown", allowed |-> TRUE,
        reason |-> "no_marketing_opt_status__treated_as_allowed"]
  ELSE IF cs[waId].status = "opted_out"
  THEN [waId |-> waId, status |-> cs[waId].status, allowed |-> FALSE,
        reason |-> "contact_opted_out_of_marketing_messages", contact |-> cs[waId]]
  ELSE IF cs[waId].status = "opted_in"
  THEN [waId |-> waId, status |-> cs[waId].status, allowed |-> TRUE,
        reason |-> "contact_opted_in_for_marketing_messages", contact |-> cs[waId]]
  ELSE [waId |-> waId, status |-> cs[waId].status, allowed |-> TRUE,
        reason |-> "contact_marketing_status_unknown__treated_as_allowed",
        contact |-> cs[waId]]

evaluateMarketingEligibility(cs, cfg, waId) ==
  IF waId \notin DOMAIN cs
  THEN [waId |-> waId, status |-> "unknown", allowed |-> ~cfg.requireOptIn,
        reason |-> IF cfg.requireOptIn THEN "marketing_opt_in_required"
                   ELSE "no_marketing_opt_status__treated_as_allowed"]
  ELSE IF cs[waId].status = "opted_out"
  THEN [waId |-> waId, status |-> cs[waId].status, allowed |-> FALSE,
        reason |-> "contact_opted_out_of_marketing_messages", contact |-> cs[waId]]
  ELSE IF cs[waId].status = "opted_in"
  THEN [waId |-> waId, status |-> cs[waId].status, allowed |-> TRUE,
        reason |-> "contact_opted_in_for_marketing_messages", contact |-> cs[waId]]
  ELSE [waId |-> waId, status |-> cs[waId].status, allowed |-> ~cfg.requireOptIn,
        reason |-> IF cfg.requireOptIn THEN "marketing_opt_in_required"
                   ELSE "contact_marketing_status_unknown__treated_as_allowed",
        contact |-> cs[waId]]

\* s.scheduledFor ?? s.sendTimestamp
effectiveTime(record) ==
  IF Has(record, "scheduledFor") THEN record.scheduledFor ELSE record.sendTimestamp

\* frequencyBuckets.get(key) ?? []
bucketOf(buckets, key) == IF key \in DOMAIN buckets THEN buckets[key] ELSE <<>>

\* the cap check compares with <= instead of <
evaluateMarketingFrequency_offByOne(buckets, cfg, phoneId, to, t) ==
  LET windowStart == t - cfg.frequencyWindowMs
      history == bucketOf(buckets, getFrequencyKey(phoneId, to))
      recent == SelectSeq(history, LAMBDA s : effectiveTime(s) >= windowStart)
      allowed == Len(recent) <= cfg.maxSendsPerWindow
  IN [allowed |-> allowed,
      reason |-> IF allowed THEN "within_frequency_cap" ELSE "marketing_frequency_cap_hit",
      windowMs |-> cfg.frequencyWindowMs,
      sendsInWindow |-> Len(recent),
      maxSends |-> cfg.maxSendsPerWindow]

evaluateMarketingFrequency(buckets, cfg, phoneId, to, t) ==
  LET windowStart == t - cfg.frequencyWindowMs
      history == bucketOf(buckets, getFrequencyKey(phoneId, to))
      recent == SelectSeq(history, LAMBDA s : effectiveTime(s) >= windowStart)
      allowed == Len(recent) < cfg.maxSendsPerWindow
  IN [allowed |-> allowed,
      reason |-> IF allowed THEN "within_frequency_cap" ELSE "marketing_frequency_cap_hit",
      windowMs |-> cfg.frequencyWindowMs,
      sendsInWindow |-> Len(recent),
      maxSends |-> cfg.maxSendsPerWindow]

\* the cap of the ledgers
LEDGER_CAP == 500

\* the overflow drops the newest entries
capLedger_keepOldest(ledger) ==
  IF Len(ledger) > LEDGER_CAP THEN SubSeq(ledger, 1, LEDGER_CAP) ELSE ledger

\* ledger.splice(0, ledger.length - 500) when it is longer than 500
capLedger(ledger) ==
  IF Len(ledger) > LEDGER_CAP
  THEN SubSeq(ledger, Len(ledger) - LEDGER_CAP + 1, Len(ledger))
  ELSE ledger

\* the record registerMarketingSend creates; random stands for the random id suffix
marketingRecord(params, t, random) ==
  LET r0 == [id |-> <<"mkt", t, random>>, phoneId |-> params.phoneId, to |-> params.to,
             category |-> IF Has(params, "category") THEN params.category ELSE "MARKETING",
             sendTimestamp |-> t]
      r1 == copyIfGiven(r0, params, "templateName")
      r2 == copyIfGiven(r1, params, "languageCode")
  IN IF Has(params, "sendAt") THEN Put(r2, "scheduledFor", params.sendAt) ELSE r2

\* the frequency buckets after registerMarketingSend
registerMarketingSend(buckets, cfg, params, t, random) ==
  LET effectiveSend == IF Has(params, "sendAt") THEN params.sendAt ELSE t
      key == getFrequencyKey(params.phoneId, params.to)
      existing == Append(bucketOf(buckets, key), marketingRecord(params, t, random))
      cutoff == effectiveSend - cfg.frequencyWindowMs
      pruned == SelectSeq(existing, LAMBDA r : effectiveTime(r) >= cutoff)
  IN PutEntry(buckets, key, pruned)

\* the event recordMarketingConversion creates; random stands for the random id suffix
conversionEvent(params, t, random) ==
  LET e0 == [id |-> <<"conv", t, random>>, waId |-> params.waId, event |-> params.event,
             createdAt |-> t]
      e1 == copyIfGiven(e0, params, "sendId")
      e2 == copyIfGiven(e1, params, "value")
      e3 == copyIfGiven(e2, params, "currency")
  IN copyIfGiven(e3, params, "metadata")

\* the conversion ledger after recordMarketingConversion
recordMarketingConversion(ledger, params, t, random) ==
  capLedger(Append(ledger, conversionEvent(params, t, random)))

\* patch numbers: frequencyWindowMs in milliseconds, maxSendsPerWindow in halves
updateMarketingConfig(cfg, patch) ==
  LET c1 == IF Has(patch, "frequencyWindowMs")
            THEN Put(cfg, "frequencyWindowMs",
                     clampPositive(patch.frequencyWindowMs, cfg.frequencyWindowMs))
            ELSE cfg
      c2 == IF Has(patch, "maxSendsPerWindow")
            THEN Put(c1, "maxSendsPerWindow", Max1(FloorOfHalves(patch.maxSendsPerWindow)))
            ELSE c1
  IN IF Has(patch, "requireOptIn") THEN Put(c2, "requireOptIn", patch.requireOptIn) ELSE c2

InitMarketing ==
  /\ contacts = <<>>
  /\ sends = <<>>
  /\ frequencyBuckets = <<>>
  /\ config = initialMarketingConfig
  /\ uncheckedPairs = {}
  /\ configChanged = FALSE /\ conversions = <<>>

InitLimitSpec == InitIdle /\ InitLimits /\ InitRouting /\ InitMarketing /\ InitStores /\ InitNoRequests

NextLimits ==
  \/ Tick
  \/ EvaluateMessagingLimit
  \/ RegisterSend
  \/ SetMessagingTier

SpecLimits == InitLimitSpec /\ [][NextLimits]_vars


(* ------------------- claims: messaging-limit tracker ------------------- *)
\* the recipients of the events of number p whose timestamp is >= t - windowMs
RecipientsInWindow(st, p, t) ==
  IF p \in DOMAIN st
  THEN {e.to : e \in {x \in Range(st[p].sends) : x.timestamp >= t - st[p].windowMs}}
  ELSE {}

\* the limits as the specification lists them; 0 stands for "unbounded"
ClaimedLimit(tier) ==
  CASE tier = "TIER_250" -> 250
    [] tier = "TIER_1K" -> 1000
    [] tier = "TIER_10K" -> 10000
    [] tier = "TIER_100K" -> 100000
    [] tier = "TIER_UNLIMITED" -> 0

WithinTierLimit(st, p, t) ==
  p \in DOMAIN st =>
    \/ st[p].tier = "TIER_UNLIMITED"
    \/ Cardinality(RecipientsInWindow(st, p, t)) <= ClaimedLimit(st[p].tier)

TierKept(p) ==
  (p \in DOMAIN states /\ p \in DOMAIN states') => states'[p].tier = states[p].tier

\* the step is a registerSend on p that no allowing evaluate directly preceded
UncheckedRegister(p) ==
  /\ lastResult'.op = "registerSend"
  /\ lastResult'.phoneId = p
  /\ ~lastResult'.checked

C1_Step ==
  \A p \in PhoneIds :
    (WithinTierLimit(states, p, now) /\ TierKept(p) /\ ~UncheckedRegister(p))
      => WithinTierLimit(states', p, now')

\* C1: starting within the limit, every step that neither changes the tier of
\* a number nor registers a send on it without an allowing evaluate directly
\* before (and time only moves forward) leaves the number's count of distinct
\* in-window recipients at or below the tier limit.
Thm_C1 ==
  /\ \A p \in PhoneIds : WithinTierLimit(states, p, now)
  /\ [][C1_Step]_vars

\* a checked registerSend has just used up the last unit of capacity
Wit_C1 ==
  /\ lastResult.op = "registerSend" /\ lastResult.checked
  /\ states[lastResult.phoneId].tier = "TIER_250"
  /\ Cardinality(RecipientsInWindow(states, lastResult.phoneId, now)) = 250

\* C2: evaluateMessagingLimit allows exactly when the recipient is among the
\* in-window recipients or their count is strictly below the tier limit
\* (250 / 1000 / 10000 / 100000 / unbounded), and a rejection carries a
\* reason; with TIER_250 and 250 in-window recipients exactly the 250 pass.
Thm_C2 ==
  lastResult.op = "evaluateMessagingLimit" =>
    LET p == lastResult.phoneId
        inWindow == RecipientsInWindow(states, p, lastResult.now)
        tier == states[p].tier
        below == tier = "TIER_UNLIMITED" \/ Cardinality(inWindow) < ClaimedLimit(tier)
    IN /\ lastResult.allowed = (lastResult.to \in inWindow \/ below)
       /\ ~lastResult.allowed => lastResult.reason # "undefined"
       /\ lastResult.tier = tier
       /\ (tier = "TIER_250" /\ Cardinality(inWindow) = 250)
            => (lastResult.allowed = (lastResult.to \in inWindow))

\* a 251st recipient has just been rejected on a TIER_250 number
Wit_C2 ==
  /\ lastResult.op = "evaluateMessagingLimit"
  /\ ~lastResult.allowed
  /\ lastResult.tier = "TIER_250"
  /\ lastResult.windowUniqueRecipients = 250

\* a repeat recipient has just been allowed on a full TIER_250 number
Wit_C2_repeat ==
  /\ lastResult.op = "evaluateMessagingLimit"
  /\ lastResult.allowed
  /\ lastResult.tier = "TIER_250"
  /\ lastResult.windowUniqueRecipients = 250

(* ------------------ actions: phone store and resolver ------------------ *)
\* the requests' inputs
DisplayNumbers == {"+15550001"}
PhoneUrls == {"", "https://p"}
\* the override a request sets on a WABA ("" removes the override)
WabaUrls(w) == {"", IF w = "w1" THEN "https://w" ELSE "https://v"}
GlobalUrls == {Null, "", "https://g"}
Pins == {"123456", "654321"}

UpsertPhoneInputs ==
  LET base == {[id |-> id, displayPhoneNumber |-> d] : id \in PhoneIds, d \in DisplayNumbers}
  IN base
     \cup {Put(b, "wabaId", w) : b \in base, w \in WabaIds}
     \cup {Put(b, "webhookConfiguration", [overrideCallbackUri |-> u]) :
              b \in base, u \in PhoneUrls}

UpsertPhoneNumber ==
  \E input \in UpsertPhoneInputs :
    /\ phoneNumbers' = upsertPhoneNumber(phoneNumbers, input, now)
    /\ lastResult' = [op |-> "upsertPhoneNumber", id |-> input.id]
    /\ UNCHANGED <<handlerVars, now, limitVars, wabas, runtimeConfig, attemptsMade, marketingVars>>

UpsertWaba ==
  \E w \in WabaIds : \E u \in WabaUrls(w) :
    /\ wabas' = upsertWaba(wabas, [wabaId |-> w, overrideCallbackUri |-> u])
    /\ lastResult' = [op |-> "upsertWaba"]
    /\ UNCHANGED <<handlerVars, now, limitVars, phoneNumbers, runtimeConfig, attemptsMade, marketingVars>>

UpdateConfig ==
  \E patch \in {[targetWebhookUrl |-> u] : u \in GlobalUrls}
               \cup {[webhookAppSecret |-> x] : x \in {Null, "app-secret"}} :
    /\ runtimeConfig' = updateConfig(runtimeConfig, patch)
    /\ lastResult' = [op |-> "updateConfig"]
    /\ UNCHANGED <<handlerVars, now, limitVars, phoneNumbers, wabas, attemptsMade, marketingVars>>

ResolveOpts ==
  {EmptyObject}
    \cup {[phoneNumberId |-> id] : id \in PhoneIds}
    \cup {[wabaId |-> w] : w \in WabaIds}
    \cup {[phoneNumberId |-> id, wabaId |-> w] : id \in PhoneIds, w \in WabaIds}

ResolveWebhookTarget ==
  \E opts \in ResolveOpts :
    /\ lastResult' = [op |-> "resolveWebhookTarget", opts |-> opts,
                      target |-> resolveWebhookTarget(phoneNumbers, wabas, runtimeConfig, opts)]
    /\ UNCHANGED <<handlerVars, now, limitVars, routingVars, marketingVars>>

RequestPhoneVerificationCode ==
  \E id \in PhoneIds, code \in Codes, method \in {"SMS", "VOICE"} :
    /\ phoneNumbers' =
         IF id \in DOMAIN phoneNumbers
         THEN PutEntry(phoneNumbers, id,
                       requestPhoneVerificationCode(phoneNumbers[id], code, method, "en_US", now))
         ELSE phoneNumbers
    /\ lastResult' = [op |-> "requestPhoneVerificationCode", id |-> id, code |-> code,
                      found |-> id \in DOMAIN phoneNumbers]
    /\ UNCHANGED <<handlerVars, now, limitVars, wabas, runtimeConfig, attemptsMade, marketingVars>>

VerifyPhoneNumberCode ==
  \E id \in PhoneIds, code \in Codes :
    LET ok == codeMatches(phoneNumbers, id, code) IN
    /\ phoneNumbers' =
         IF ok THEN PutEntry(phoneNumbers, id, verifyPhoneNumberCode(phoneNumbers[id]))
         ELSE phoneNumbers
    /\ lastResult' = [op |-> "verifyPhoneNumberCode", id |-> id, code |-> code,
                      returned |-> ok]
    /\ UNCHANGED <<handlerVars, now, limitVars, wabas, runtimeConfig, attemptsMade, marketingVars>>

RegisterParams ==
  {[id |-> id, pin |-> pin] : id \in PhoneIds, pin \in Pins}
    \cup {[id |-> id, pin |-> pin, dataLocalizationRegion |-> "us"] :
             id \in PhoneIds, pin \in {"123456"}}

RegisterPhoneNumber ==
  \E params \in RegisterParams :
    /\ attemptsMade < MaxAttempts
    /\ attemptsMade' = attemptsMade + 1
    /\ IF params.id \in DOMAIN phoneNumbers
       THEN LET r == registerPhoneNumber(phoneNumbers[params.id], params, now) IN
            /\ phoneNumbers' = PutEntry(phoneNumbers, params.id, r.phone)
            /\ lastResult' = [op |-> "registerPhoneNumber", params |-> params,
                              result |-> r.result]
       ELSE /\ phoneNumbers' = phoneNumbers
            /\ lastResult' = [op |-> "registerPhoneNumber", params |-> params,
                              result |-> [ok |-> FALSE, error |-> "not_found"]]
    /\ UNCHANGED <<handlerVars, now, limitVars, wabas, runtimeConfig, marketingVars>>

DeregisterPhoneNumber ==
  \E id \in PhoneIds :
    /\ attemptsMade < MaxAttempts
    /\ attemptsMade' = attemptsMade + 1
    /\ IF id \in DOMAIN phoneNumbers
       THEN LET r == deregisterPhoneNumber(phoneNumbers[id], now) IN
            /\ phoneNumbers' = PutEntry(phoneNumbers, id, r.phone)
            /\ lastResult' = [op |-> "deregisterPhoneNumber", params |-> [id |-> id],
                              result |-> r.result]
       ELSE /\ phoneNumbers' = phoneNumbers
            /\ lastResult' = [op |-> "deregisterPhoneNumber", params |-> [id |-> id],
                              result |-> [ok |-> FALSE, error |-> "not_found"]]
    /\ UNCHANGED <<handlerVars, now, limitVars, wabas, runtimeConfig, marketingVars>>

\* the clock at a few instants around the edges of the 72h window
ThrottleInstants == {1, REQUEST_WINDOW_MS, REQUEST_WINDOW_MS + 1, REQUEST_WINDOW_MS + 2}

TickThrottle ==
  /\ \E t \in ThrottleInstants : t > now /\ now' = t
  /\ lastResult' = [op |-> "none"]
  /\ UNCHANGED <<handlerVars, limitVars, routingVars, marketingVars>>

\* k earlier attempts: the oldest at time 0, the rest at time 1
attemptsOf(k) == [i \in 1..k |-> IF i = 1 THEN 0 ELSE 1]

\* phone p1 after k successful registers followed by d successful deregisters
phoneWithAttempts(k, d) ==
  LET fresh == newPhone([id |-> "p1", displayPhoneNumber |-> "+15550001"], 0)
      reg == IF k > 0
             THEN Put(Put(Put(fresh, "registerRequests", attemptsOf(k)),
                          "twoStepVerificationPin", "123456"), "registered", TRUE)
             ELSE fresh
  IN IF d > 0
     THEN Put(Put(reg, "deregisterRequests", attemptsOf(d)), "registered", FALSE)
     ELSE reg

InitThrottle ==
  /\ wabas = <<>>
  /\ runtimeConfig = initialRuntimeConfig
  /\ attemptsMade = 0
  /\ \E k \in {0, REQUEST_LIMIT - 1}, d \in {0, REQUEST_LIMIT - 1} :
       phoneNumbers = [id \in {"p1"} |-> phoneWithAttempts(k, d)]

InitNoSends == states = <<>> /\ sendsMade = 0

InitThrottleSpec ==
  InitIdle /\ InitNoSends /\ InitThrottle /\ InitMarketing /\ InitStores /\ InitNoRequests

\* every store as it is when the process starts
InitAll == InitIdle /\ InitNoSends /\ InitRouting /\ InitMarketing /\ InitStores /\ InitNoRequests

\* the registration throttle
SpecThrottle ==
  /\ InitThrottleSpec
  /\ [][RegisterPhoneNumber \/ DeregisterPhoneNumber \/ TickThrottle]_vars

\* the verification state machine
SpecVerify ==
  /\ InitAll
  /\ [][UpsertPhoneNumber \/ RequestPhoneVerificationCode \/ VerifyPhoneNumberCode]_vars

\* the webhook target resolver
SpecResolve ==
  /\ InitAll
  /\ [][UpsertPhoneNumber \/ UpsertWaba \/ UpdateConfig \/ ResolveWebhookTarget]_vars

(* -------------------------- actions: marketing ------------------------- *)
MarketingRecipients == {1, 2}
\* the scheduled time that requests name: the last instant of the run
SendAts == {DEFAULT_WINDOW_MS + 2}
\* the phone numbers that send marketing messages
MarketingPhones == {"p1"}
\* the random suffixes of record ids
RandomSuffixes == {"k3x9q1"}

UpsertMarketingContact ==
  \E input \in {[waId |-> r] : r \in MarketingRecipients}
               \cup {[waId |-> r, status |-> st] : r \in MarketingRecipients, st \in OptInStatuses} :
    /\ contacts' = upsertMarketingContact(contacts, input, now)
    /\ lastResult' = [op |-> "upsertMarketingContact", waId |-> input.waId]
    /\ UNCHANGED <<handlerVars, now, limitVars, routingVars, sends, frequencyBuckets, config,
                   uncheckedPairs, configChanged,
                   conversions>>

EvaluateMarketingEligibility ==
  \E waId \in MarketingRecipients :
    /\ lastResult' = [op |-> "evaluateMarketingEligibility", waId |-> waId,
                      result |-> evaluateMarketingEligibility(contacts, config, waId)]
    /\ UNCHANGED <<handlerVars, now, limitVars, routingVars, marketingVars>>

EvaluateMarketingFrequency ==
  \E p \in MarketingPhones, to \in MarketingRecipients :
    /\ lastResult' = [op |-> "evaluateMarketingFrequency", phoneId |-> p, to |-> to,
                      now |-> now,
                      result |-> evaluateMarketingFrequency(frequencyBuckets, config, p, to, now)]
    /\ UNCHANGED <<handlerVars, now, limitVars, routingVars, marketingVars>>

\* whether the last call was an evaluateMarketingFrequency of (p, to) that allowed it
FrequencyAllowedJustBefore(p, to) ==
  /\ lastResult.op = "evaluateMarketingFrequency"
  /\ lastResult.phoneId = p /\ lastResult.to = to /\ lastResult.now = now
  /\ lastResult.result.allowed

MarketingSendParams ==
  {[phoneId |-> p, to |-> to] : p \in MarketingPhones, to \in MarketingRecipients}
    \cup {[phoneId |-> p, to |-> to, sendAt |-> at] :
             p \in MarketingPhones, to \in MarketingRecipients, at \in SendAts}

RegisterMarketingSend ==
  \E params \in MarketingSendParams, random \in RandomSuffixes :
    /\ Len(sends) < MaxMarketingSends
    /\ sends' = capLedger(Append(sends, marketingRecord(params, now, random)))
    /\ frequencyBuckets' = registerMarketingSend(frequencyBuckets, config, params, now, random)
    /\ uncheckedPairs' =
         IF FrequencyAllowedJustBefore(params.phoneId, params.to) THEN uncheckedPairs
         ELSE uncheckedPairs \cup {<<params.phoneId, params.to>>}
    /\ lastResult' = [op |-> "registerMarketingSend", params |-> params]
    /\ UNCHANGED <<handlerVars, now, limitVars, routingVars, contacts, config, configChanged,
                   conversions>>

MarketingConfigPatches ==
  {[frequencyWindowMs |-> w] : w \in {0, 1}}
    \cup {[maxSendsPerWindow |-> halves] : halves \in {1, 5}}
    \cup {[requireOptIn |-> b] : b \in BOOLEAN}

UpdateMarketingConfig ==
  \E patch \in MarketingConfigPatches :
    LET updated == updateMarketingConfig(config, patch) IN
    /\ config' = updated
    /\ configChanged' =
         (\/ configChanged
          \/ /\ frequencyBuckets # <<>>
             /\ \/ updated.frequencyWindowMs # config.frequencyWindowMs
                \/ updated.maxSendsPerWindow # config.maxSendsPerWindow)
    /\ lastResult' = [op |-> "updateMarketingConfig"]
    /\ UNCHANGED <<handlerVars, now, limitVars, routingVars, contacts, sends, frequencyBuckets,
                   uncheckedPairs,
                   conversions>>

\* marketing eligibility
SpecOptIn ==
  /\ InitAll
  /\ [][UpsertMarketingContact \/ EvaluateMarketingEligibility \/ UpdateMarketingConfig]_vars

\* marketing frequency cap
SpecFrequency ==
  /\ InitAll
  /\ [][\/ EvaluateMarketingFrequency
        \/ RegisterMarketingSend
        \/ UpdateMarketingConfig
        \/ Tick]_vars

(* ------------------------- claims: marketing --------------------------- *)
\* the entries of the bucket of (p, to) whose effective time (scheduledFor
\* when present, else send time) lies in [t - frequencyWindowMs, t]
BucketEntriesInWindow(p, to, t) ==
  IF <<p, to>> \in DOMAIN frequencyBuckets
  THEN {i \in 1..Len(frequencyBuckets[<<p, to>>]) :
          LET r == frequencyBuckets[<<p, to>>][i]
              at == IF "scheduledFor" \in DOMAIN r THEN r.scheduledFor ELSE r.sendTimestamp
          IN at >= t - config.frequencyWindowMs /\ at <= t}
  ELSE {}

WithinFrequencyCap(p, to) ==
  Cardinality(BucketEntriesInWindow(p, to, now)) <= config.maxSendsPerWindow

\* C4 as stated: for every pair whose registrations were all directly
\* preceded by an allowing evaluateMarketingFrequency, the bucket entries with
\* effective time in [now - frequencyWindowMs, now] never exceed
\* maxSendsPerWindow.
Cex_C4 ==
  \A p \in MarketingPhones, to \in MarketingRecipients :
    <<p, to>> \notin uncheckedPairs => WithinFrequencyCap(p, to)

\* C4 (amended): the same, as long as updateMarketingConfig has not changed
\* frequencyWindowMs or maxSendsPerWindow once a marketing send is registered.
Thm_C4 ==
  ~configChanged =>
    \A p \in MarketingPhones, to \in MarketingRecipients :
      <<p, to>> \notin uncheckedPairs => WithinFrequencyCap(p, to)

\* a pair was evaluated and registered up to the cap, and the next evaluation
\* hit the cap
Wit_C4 ==
  /\ ~configChanged
  /\ lastResult.op = "evaluateMarketingFrequency"
  /\ ~lastResult.result.allowed
  /\ <<lastResult.phoneId, lastResult.to>> \notin uncheckedPairs
  /\ Cardinality(BucketEntriesInWindow(lastResult.phoneId, lastResult.to, now))
       = config.maxSendsPerWindow

\* C5: opted_out is rejected and opted_in allowed whatever requireOptIn is;
\* a contact with no record or with status unknown gets status unknown and
\* allowed = ~requireOptIn, so with the default requireOptIn = TRUE a contact
\* with no record is rejected.
Thm_C5 ==
  lastResult.op = "evaluateMarketingEligibility" =>
    LET waId == lastResult.waId
        recorded == IF waId \in DOMAIN contacts THEN contacts[waId].status ELSE "none"
        res == lastResult.result
    IN /\ recorded = "opted_out" => ~res.allowed
       /\ recorded = "opted_in" => res.allowed
       /\ recorded \in {"none", "unknown"}
            => res.status = "unknown" /\ res.allowed = ~config.requireOptIn
       /\ (recorded = "none" /\ config.requireOptIn = TRUE) => ~res.allowed

\* a contact with no record was rejected under requireOptIn = TRUE
Wit_C5 ==
  /\ lastResult.op = "evaluateMarketingEligibility"
  /\ lastResult.waId \notin DOMAIN contacts
  /\ config.requireOptIn
  /\ ~lastResult.result.allowed
  /\ lastResult.result.status = "unknown"

(* ----------------------------- state/policy.ts ------------------------- *)
ContactStatuses == {"allowed", "blocked", "unknown"}

\* input.status || existing?.status || "unknown"
upsertContactPolicy(pc, input, t) ==
  LET existing == IF input.waId \in DOMAIN pc THEN pc[input.waId] ELSE EmptyObject
      status == IF Truthy(input, "status") THEN input.status
                ELSE IF Truthy(existing, "status") THEN existing.status
                ELSE "unknown"
      p0 == [waId |-> input.waId, status |-> status, updatedAt |-> t]
      p1 == IF Has(input, "label") THEN Put(p0, "label", input.label)
            ELSE copyIfGiven(p0, existing, "label")
      p2 == IF Has(input, "note") THEN Put(p1, "note", input.note)
            ELSE copyIfGiven(p1, existing, "note")
  IN PutEntry(pc, input.waId, p2)

\* nobody is blocked
evaluatePolicyForWaId_open(pc, waId) ==
  [waId |-> waId, status |-> "unknown", allowed |-> TRUE, reason |-> "no_explicit_policy"]

\* every record that is not marked allowed is turned away
evaluatePolicyForWaId_strict(pc, waId) ==
  IF waId \notin DOMAIN pc
  THEN [waId |-> waId, status |-> "unknown", allowed |-> TRUE,
        reason |-> "no_explicit_policy"]
  ELSE [waId |-> waId, status |-> pc[waId].status,
        allowed |-> pc[waId].status = "allowed",
        reason |-> "contact_marked_as_allowed_in_sandbox_policy", contact |-> pc[waId]]

evaluatePolicyForWaId(pc, waId) ==
  IF waId \notin DOMAIN pc
  THEN [waId |-> waId, status |-> "unknown", allowed |-> TRUE,
        reason |-> "no_explicit_policy"]
  ELSE IF pc[waId].status = "blocked"
  THEN [waId |-> waId, status |-> pc[waId].status, allowed |-> FALSE,
        reason |-> "contact_marked_as_blocked_in_sandbox_policy__check_EULA_and_opt_in_requirements",
        contact |-> pc[waId]]
  ELSE IF pc[waId].status = "allowed"
  THEN [waId |-> waId, status |-> pc[waId].status, allowed |-> TRUE,
        reason |-> "contact_marked_as_allowed_in_sandbox_policy", contact |-> pc[waId]]
  ELSE [waId |-> waId, status |-> pc[waId].status, allowed |-> TRUE,
        reason |-> "contact_policy_unknown__treat_as_allowed_but_review_for_EULA",
        contact |-> pc[waId]]

(* ---------------------------- the template store ----------------------- *)
\* String.prototype.toLowerCase, on the names that requests and templates use
toLowerCase(str) == IF str = "Promo" THEN "promo" ELSE str

\* toUpperCase on the category and status words that requests use
upperWord(str) ==
  CASE str = "marketing" -> "MARKETING"
    [] str = "approved" -> "APPROVED"
    [] OTHER -> str

normalizeTemplateCategory(category) ==
  IF upperWord(category) \in {"MARKETING", "UTILITY", "AUTHENTICATION"}
  THEN upperWord(category)
  ELSE "UNKNOWN"

TemplateStatuses == {"APPROVED", "PENDING", "REJECTED", "IN_APPEAL", "DISABLED", "PAUSED"}

\* status is Undefined when the caller gave none
normalizeTemplateStatus(status, defaultStatus) ==
  IF status # Undefined /\ upperWord(status) \in TemplateStatuses
  THEN upperWord(status)
  ELSE defaultStatus

\* obj.key, or Undefined when the object has no such property
opt(obj, key) == IF Has(obj, key) THEN obj[key] ELSE Undefined

\* a ?? b, for string-valued a
orElse(a, b) == IF a \in {Null, Undefined} THEN b ELSE a

\* only the body text becomes a component
buildComponentsFromText_bodyOnly(bodyText, headerText, footerText) ==
  IF IsTruthy(bodyText) THEN <<[type |-> "BODY", text |-> bodyText]>> ELSE <<>>

\* buildComponentsFromText: one component per non-empty text, header first
buildComponentsFromText(bodyText, headerText, footerText) ==
  (IF IsTruthy(headerText)
   THEN <<[type |-> "HEADER", format |-> "TEXT", text |-> headerText]>> ELSE <<>>)
  \o (IF IsTruthy(bodyText) THEN <<[type |-> "BODY", text |-> bodyText]>> ELSE <<>>)
  \o (IF IsTruthy(footerText) THEN <<[type |-> "FOOTER", text |-> footerText]>> ELSE <<>>)

\* the text of the first component of the type that has text, or Undefined
firstText(components, type) ==
  LET hits == {i \in 1..Len(components) :
                 components[i].type = type /\ Truthy(components[i], "text")}
  IN IF hits = {} THEN Undefined
     ELSE components[CHOOSE i \in hits : \A j \in hits : i <= j].text

deriveTextFromComponents(components) ==
  [headerText |-> firstText(components, "HEADER"),
   bodyText |-> firstText(components, "BODY"),
   footerText |-> firstText(components, "FOOTER")]

\* the audit entry of a status, with its reason and note when they are defined
statusAudit(status, t, reason, note) ==
  LET a0 == [status |-> status, updatedAt |-> t]
      a1 == IF reason # Undefined THEN Put(a0, "reason", reason) ELSE a0
  IN IF note # Undefined THEN Put(a1, "note", note) ELSE a1

\* templates.set(tpl.id, tpl): a known id keeps its place in the Map
setTemplate(store, tpl) ==
  IF \E i \in 1..Len(store) : store[i].id = tpl.id
  THEN [i \in 1..Len(store) |-> IF store[i].id = tpl.id THEN tpl ELSE store[i]]
  ELSE Append(store, tpl)

\* the components and the body text createTemplate settles on
createdComponents(input) ==
  IF Has(input, "components") THEN input.components
  ELSE buildComponentsFromText(opt(input, "bodyText"), opt(input, "headerText"),
                               opt(input, "footerText"))

createdBodyText(input) ==
  orElse(opt(input, "bodyText"), deriveTextFromComponents(createdComponents(input)).bodyText)

\* createTemplate throws body_text_required
createTemplateThrows(input) == ~IsTruthy(createdBodyText(input))

\* the template createTemplate builds; random stands for the random id suffix
createdTemplate(input, t, random) ==
  LET status == normalizeTemplateStatus(opt(input, "status"), "PENDING")
      derivedText == deriveTextFromComponents(createdComponents(input))
      rejectionReason == IF status = "REJECTED"
                         THEN orElse(opt(input, "rejectionReason"), "POLICY")
                         ELSE opt(input, "rejectionReason")
      tpl == [id |-> <<"tpl", t, random>>,
              name |-> input.name,
              languageCode |-> input.languageCode,
              category |-> orElse(opt(input, "category"), "UNKNOWN"),
              bodyText |-> createdBodyText(input),
              headerText |-> orElse(opt(input, "headerText"), derivedText.headerText),
              footerText |-> orElse(opt(input, "footerText"), derivedText.footerText),
              components |-> createdComponents(input),
              status |-> status,
              statusHistory |-> <<statusAudit(status, t, rejectionReason,
                                              opt(input, "rejectionNote"))>>,
              rejectionReason |-> rejectionReason,
              rejectionNote |-> opt(input, "rejectionNote"),
              createdAt |-> t,
              updatedAt |-> t]
  IN copyIfGiven(tpl, input, "wabaId")

\* the store after createTemplate: unchanged when it throws
createTemplate(store, input, t, random) ==
  IF createTemplateThrows(input) THEN store
  ELSE setTemplate(store, createdTemplate(input, t, random))

\* ensureTemplateShape: the template as a read leaves it in the store
ensureTemplateShape(tpl, t) ==
  LET components == IF Len(tpl.components) = 0
                    THEN buildComponentsFromText(tpl.bodyText, tpl.headerText, tpl.footerText)
                    ELSE tpl.components
      derived == deriveTextFromComponents(components)
      fill(own, other) == IF ~IsTruthy(own) /\ IsTruthy(other) THEN other ELSE own
      createdAt == IF tpl.createdAt = 0 THEN t ELSE tpl.createdAt
  IN [tpl EXCEPT
        !.components = components,
        !.bodyText = fill(@, derived.bodyText),
        !.headerText = fill(@, derived.headerText),
        !.footerText = fill(@, derived.footerText),
        !.statusHistory = IF Len(@) = 0
                          THEN <<statusAudit(tpl.status, tpl.updatedAt, tpl.rejectionReason,
                                             Undefined)>>
                          ELSE @,
        !.createdAt = createdAt,
        !.updatedAt = IF @ = 0 THEN createdAt ELSE @]

\* listTemplates: every template shaped, which is also what the store then holds
listTemplates(store, t) == [i \in 1..Len(store) |-> ensureTemplateShape(store[i], t)]

\* whether getTemplateByName's predicate takes tpl; languageCode and wabaId are
\* Undefined when not given
templateMatches(tpl, name, languageCode, wabaId) ==
  /\ toLowerCase(tpl.name) = toLowerCase(name)
  /\ IsTruthy(languageCode) => toLowerCase(tpl.languageCode) = toLowerCase(languageCode)
  /\ IsTruthy(wabaId) => Truthy(tpl, "wabaId") /\ toLowerCase(tpl.wabaId) = toLowerCase(wabaId)

\* the first template of the shaped list that matches: [found, tpl]
getTemplateByName(store, name, languageCode, wabaId) ==
  LET hits == {i \in 1..Len(store) : templateMatches(store[i], name, languageCode, wabaId)}
  IN IF hits = {} THEN [found |-> FALSE]
     ELSE [found |-> TRUE, tpl |-> store[CHOOSE i \in hits : \A j \in hits : i <= j]]

\* the position of the template with the id in the store, or 0
indexOfTemplate(store, id) ==
  IF \E i \in 1..Len(store) : store[i].id = id
  THEN CHOOSE i \in 1..Len(store) : store[i].id = id
  ELSE 0

\* the status branch without its audit entry
patchStatus_noAudit(existing, patch, t) ==
  [existing EXCEPT !.status = normalizeTemplateStatus(patch.status, existing.status)]

\* the status branch of updateTemplate, taken when patch.status is truthy
patchStatus(existing, patch, t) ==
  LET normalized == normalizeTemplateStatus(patch.status, existing.status)
      rejectionReason ==
        IF normalized = "REJECTED"
        THEN orElse(opt(patch, "rejectionReason"), orElse(existing.rejectionReason, "POLICY"))
        ELSE orElse(opt(patch, "rejectionReason"), existing.rejectionReason)
      rejectionNote ==
        IF opt(patch, "rejectionNote") \notin {Null, Undefined}
        THEN (IF IsTruthy(patch.rejectionNote) THEN patch.rejectionNote ELSE Undefined)
        ELSE existing.rejectionNote
      historyNote == orElse(opt(patch, "statusNote"),
                            orElse(opt(patch, "rejectionNote"), rejectionNote))
  IN [existing EXCEPT
        !.status = normalized,
        !.rejectionReason = rejectionReason,
        !.rejectionNote = rejectionNote,
        !.statusHistory = Append(@, statusAudit(normalized, t, rejectionReason, historyNote))]

\* patch.key === null deletes the field, a string sets it
patchNullable(tpl, patch, key) ==
  IF ~Has(patch, key) THEN tpl
  ELSE IF patch[key] = Null THEN [tpl EXCEPT ![key] = Undefined]
  ELSE [tpl EXCEPT ![key] = patch[key]]

\* the components branch of updateTemplate
patchComponents(tpl, patch) ==
  IF ~Has(patch, "components") THEN tpl
  ELSE LET derived == deriveTextFromComponents(patch.components)
           take(own, other) == IF IsTruthy(other) THEN other ELSE own
       IN [tpl EXCEPT !.components = patch.components,
                      !.bodyText = take(@, derived.bodyText),
                      !.headerText = take(@, derived.headerText),
                      !.footerText = take(@, derived.footerText)]

\* the template updateTemplate leaves, for a template that exists
updatedTemplate(existing, patch, t) ==
  LET e0 == ensureTemplateShape(existing, t)
      e1 == copyIfGiven(copyIfGiven(e0, patch, "name"), patch, "languageCode")
      e2 == IF Truthy(patch, "category") THEN [e1 EXCEPT !.category = patch.category] ELSE e1
      e3 == copyIfGiven(e2, patch, "bodyText")
      e4 == patchNullable(patchNullable(e3, patch, "headerText"), patch, "footerText")
      e5 == IF Truthy(patch, "status") THEN patchStatus(e4, patch, t) ELSE e4
      e6 == IF ~Has(patch, "wabaId") THEN e5
            ELSE IF patch.wabaId = Null THEN Delete(e5, "wabaId")
            ELSE Put(e5, "wabaId", patch.wabaId)
      e7 == patchComponents(e6, patch)
      e8 == IF ~Has(patch, "rejectionReason") THEN e7
            ELSE IF patch.rejectionReason = Null THEN [e7 EXCEPT !.rejectionReason = Undefined]
            ELSE IF IsTruthy(patch.rejectionReason)
            THEN [e7 EXCEPT !.rejectionReason = patch.rejectionReason]
            ELSE e7
      e9 == patchNullable(e8, patch, "rejectionNote")
  IN [e9 EXCEPT !.updatedAt = t]

\* the store after updateTemplate: unchanged when the id is unknown
updateTemplate(store, id, patch, t) ==
  IF indexOfTemplate(store, id) = 0 THEN store
  ELSE setTemplate(store, updatedTemplate(store[indexOfTemplate(store, id)], patch, t))

\* the patch updateTemplateStatus hands to updateTemplate
statusPatch(status, opts) ==
  LET p0 == [status |-> status]
      p1 == copyIfGiven(p0, opts, "rejectionReason")
  IN IF Has(opts, "rejectionNote")
     THEN Put(Put(p1, "rejectionNote", opts.rejectionNote), "statusNote", opts.rejectionNote)
     ELSE p1

updateTemplateStatus(store, id, status, opts, t) ==
  updateTemplate(store, id, statusPatch(status, opts), t)

(* ------------------------------- eventStore ---------------------------- *)
maxEvents == 200

\* the event addEvent stores and returns; random stands for the random id suffix
enriched(event, t, random) == Spread(event, [id |-> <<"evt", t, random>>, timestamp |-> t])

\* the splice drops the newest events instead of the oldest
addEvent_keepOldest(evts, event, t, random) ==
  LET pushed == Append(evts, enriched(event, t, random))
  IN IF Len(pushed) > maxEvents THEN SubSeq(pushed, 1, maxEvents) ELSE pushed

\* the events array after addEvent
addEvent(evts, event, t, random) ==
  LET pushed == Append(evts, enriched(event, t, random))
  IN IF Len(pushed) > maxEvents
     THEN SubSeq(pushed, Len(pushed) - maxEvents + 1, Len(pushed))
     ELSE pushed

\* the loop gives up at the first subscriber that throws
notified_uncaught(subs, event) ==
  IF \E i \in 1..Len(subs) : subs[i].throws
  THEN [i \in 1..(CHOOSE k \in 1..Len(subs) :
                    subs[k].throws /\ \A j \in 1..(k - 1) : ~subs[j].throws)
          |-> [subscriber |-> subs[i].id, event |-> event.id]]
  ELSE [i \in 1..Len(subs) |-> [subscriber |-> subs[i].id, event |-> event.id]]

\* the calls addEvent makes to the subscribers: each one is called in insertion
\* order, and what a subscriber throws is caught and dropped
notified(subs, event) ==
  [i \in 1..Len(subs) |-> [subscriber |-> subs[i].id, event |-> event.id]]

\* subscribers.add(subscriber)
subscribe(subs, subscriber) ==
  IF \E i \in 1..Len(subs) : subs[i].id = subscriber.id THEN subs
  ELSE Append(subs, subscriber)

\* the function subscribe returned: subscribers.delete(subscriber)
unsubscribe(subs, id) == SelectSeq(subs, LAMBDA sub : sub.id # id)

(* --------------------- graph routes: the send handlers ----------------- *)
\* template.language.code when it is there, else Undefined
languageCodeOf(template) ==
  IF Has(template, "language") /\ Has(template.language, "code")
  THEN template.language.code
  ELSE Undefined

\* typeof wabaId === "string" ? wabaId : undefined
wabaIdOf(phone) == IF Has(phone, "wabaId") THEN phone.wabaId ELSE Undefined

\* the stored template the handlers look up: [found, tpl]
lookupTemplate(store, phone, template) ==
  getTemplateByName(listTemplates(store, now), template.name, languageCodeOf(template),
                    wabaIdOf(phone))

\* the 400 both handlers answer for a stored template that is not approved
templateNotApproved(tpl) ==
  [status |-> 400,
   body |-> [error |-> "template_not_approved",
             sandbox |-> [template_id |-> tpl.id, status |-> tpl.status,
                          rejection_reason |-> IF tpl.rejectionReason = Undefined
                                               THEN Null ELSE tpl.rejectionReason]]]

\* the 429 both handlers answer when the messaging limit rejects
limitReached(evaluation) ==
  [status |-> 429,
   body |-> [error |-> [message |-> "Messaging limit reached for this phone number",
                        type |-> "OAuthException", code |-> 131048,
                        error_subcode |-> 2494098, is_transient |-> FALSE],
             sandbox |-> [tier |-> evaluation.tier,
                          unique_recipients_in_window |-> evaluation.windowUniqueRecipients,
                          max_unique_recipients |-> evaluation.limitUniqueRecipients,
                          reason |-> evaluation.reason]]]

\* the handler goes on to register although the evaluation rejected
limitAllows_ignored(evaluation) == TRUE

\* if (!evaluation.allowed) return res.status(429)
limitAllows(evaluation) == evaluation.allowed

simple(status, error) == [status |-> status, body |-> [error |-> error]]

success == [status |-> 200, body |-> [success |-> TRUE]]

\* what the handler saw of the messaging limit
observed(evaluation, id, to) ==
  [evaluation |-> evaluation, fresh |-> to \notin RecipientsInWindow(states, id, now)]

\* flowInteractive of POST /:id/messages is set
isFlow(body) ==
  /\ Has(body, "type") /\ body.type = "interactive"
  /\ Has(body, "interactive") /\ Has(body.interactive, "type")
  /\ body.interactive.type = "flow"

\* obj.key ?? null
orNull(obj, key) == IF Has(obj, key) THEN obj[key] ELSE Null

\* sandboxDetails.flow
flowDetails(interactive) ==
  [type |-> "flow",
   flow_id |-> IF Has(interactive, "flow_id") THEN interactive.flow_id
               ELSE orNull(interactive, "id"),
   flow_token |-> orNull(interactive, "flow_token"),
   flow_action |-> orNull(interactive, "flow_action"),
   flow_action_payload |-> orNull(interactive, "flow_action_payload")]

\* the category POST /:id/messages gives a send before it looks a template up
requestCategory(body) ==
  LET flow == isFlow(body)
      named == IF /\ Has(body, "type") /\ body.type = "template" /\ Has(body, "template")
                  /\ Has(body.template, "category")
               THEN normalizeTemplateCategory(body.template.category)
               ELSE "UNKNOWN"
  IN IF named # "UNKNOWN" THEN named ELSE IF flow THEN "UTILITY" ELSE "UNKNOWN"

\* POST /:id/messages: the response and the stores it leaves
postMessages(id, body, random) ==
  LET keep(resp) == [response |-> resp, states |-> states, events |-> events, deliveries |-> deliveries, published |-> published,
                     templates |-> templates, log |-> EmptyObject]
  IN
  IF id \notin DOMAIN phoneNumbers THEN keep(simple(404, "phone_not_found"))
  ELSE IF Has(body, "status") /\ body.status = "read" /\ Has(body, "message_id")
  THEN keep(success)
  ELSE IF Has(body, "type") /\ body.type = "typing"
  THEN IF ~Has(body, "to") THEN keep(simple(400, "to_required_for_typing_indicator"))
       ELSE keep(success)
  ELSE IF ~Has(body, "to") THEN keep(simple(400, "to_required"))
  ELSE
    LET phone == phoneNumbers[id]
        to == body.to
        isTemplate == Has(body, "type") /\ body.type = "template" /\ Has(body, "template")
        category0 == requestCategory(body)
        looksUp == isTemplate /\ category0 = "UNKNOWN" /\ Has(body.template, "name")
        stored == IF looksUp THEN lookupTemplate(templates, phone, body.template)
                  ELSE [found |-> FALSE]
        \* the read shapes the stored templates
        tpls == IF looksUp THEN listTemplates(templates, now) ELSE templates
    IN
    IF stored.found /\ stored.tpl.status # "APPROVED"
    THEN [response |-> templateNotApproved(stored.tpl), states |-> states,
          events |-> events, deliveries |-> deliveries, published |-> published, templates |-> tpls, log |-> EmptyObject]
    ELSE
      LET category == IF stored.found /\ stored.tpl.category \in
                           {"MARKETING", "UTILITY", "AUTHENTICATION"}
                      THEN stored.tpl.category ELSE category0
          ev == evaluateMessagingLimit(states, id, to, now)
          log == observed(ev.result, id, to)
      IN
      IF ~limitAllows(ev.result)
      THEN [response |-> limitReached(ev.result), states |-> ev.st, events |-> events, deliveries |-> deliveries, published |-> published,
            templates |-> tpls, log |-> log]
      ELSE
        LET st2 == registerSend(ev.st, id, to, category, now)
            details == [cost_usd |-> CATEGORY_COST[category],
                        total_cost_usd |-> st2[id].totalCostUsd,
                        tier |-> st2[id].tier]
            sandboxDetails == IF isFlow(body)
                              THEN Put(details, "flow", flowDetails(body.interactive))
                              ELSE details
            payload0 == [phone_id |-> id, to |-> to, category |-> category,
                         messaging_limit |->
                           [tier |-> st2[id].tier,
                            unique_recipients_in_window |-> Undefined]]
            payload == copyIfGiven(copyIfGiven(copyIfGiven(payload0, body, "type"),
                                               body, "template"), body, "interactive")
            sent(p) == [direction |-> "outbound", type |-> "graph.message",
                        source |-> "graph-messages", payload |-> p]
        IN [response |-> [status |-> 200,
                          body |-> [messages |-> <<[id |-> <<"wamid.SANDBOX-OUT", now>>]>>,
                                    sandbox |-> sandboxDetails]],
            states |-> st2,
            events |-> addEvent(events, sent(payload), now, random),
            deliveries |-> deliveries \o notified(subscribers,
                                                  enriched(sent(payload), now, random)),
            published |-> published + 1,
            templates |-> tpls,
            log |-> log]

\* send_at below 10_000_000_000 is taken as seconds, else as milliseconds; the
\* threshold is kept in thousands
SEND_AT_SECONDS_BELOW_THOUSANDS == 10000000

\* sendAtMs of POST /:id/marketing_messages
parseSendAt(send_at) ==
  IF send_at \div 1000 < SEND_AT_SECONDS_BELOW_THOUSANDS THEN send_at * 1000 ELSE send_at

\* POST /:id/marketing_messages: the response and the stores it leaves
postMarketingMessages(id, body, random) ==
  LET keep(resp) == [response |-> resp, states |-> states, sends |-> sends,
                     frequencyBuckets |-> frequencyBuckets, templates |-> templates,
                     log |-> EmptyObject]
  IN
  IF id \notin DOMAIN phoneNumbers THEN keep(simple(404, "phone_not_found"))
  ELSE IF Truthy(body, "messaging_product") /\ body.messaging_product # "whatsapp"
  THEN keep(simple(400, "messaging_product_whatsapp_only"))
  ELSE IF ~Has(body, "to") THEN keep(simple(400, "to_required"))
  ELSE IF ~(Has(body, "type") /\ body.type = "template" /\ Has(body, "template"))
  THEN keep(simple(400, "template_payload_required"))
  ELSE IF ~Has(body.template, "name") THEN keep(simple(400, "template.name_required"))
  ELSE
    LET phone == phoneNumbers[id]
        to == body.to
        policy == evaluatePolicyForWaId(policyContacts, to)
        marketingEligibility == evaluateMarketingEligibility(contacts, config, to)
        frequency == evaluateMarketingFrequency(frequencyBuckets, config, id, to, now)
        ev == evaluateMessagingLimit(states, id, to, now)
        log == observed(ev.result, id, to)
        stored == lookupTemplate(templates, phone, body.template)
        \* the read shapes the stored templates
        tpls == listTemplates(templates, now)
    IN
    IF ~policy.allowed
    THEN keep([status |-> 403, body |-> [error |-> "contact_blocked_by_policy",
                                          sandbox |-> [policy |-> policy]]])
    ELSE IF ~marketingEligibility.allowed
    THEN keep([status |-> 403, body |-> [error |-> "marketing_opt_in_required",
                                          sandbox |-> [marketing |-> marketingEligibility]]])
    ELSE IF ~frequency.allowed
    THEN keep([status |-> 429,
               body |-> [error |-> [message |-> "Marketing frequency cap reached for this recipient",
                                    type |-> "OAuthException", code |-> 131051,
                                    error_subcode |-> 2495001, is_transient |-> FALSE],
                         sandbox |-> [frequency |-> frequency]]])
    ELSE IF ~limitAllows(ev.result)
    THEN [response |-> limitReached(ev.result), states |-> ev.st, sends |-> sends,
          frequencyBuckets |-> frequencyBuckets, templates |-> templates, log |-> log]
    ELSE IF stored.found /\ stored.tpl.status # "APPROVED"
    THEN [response |-> templateNotApproved(stored.tpl), states |-> ev.st, sends |-> sends,
          frequencyBuckets |-> frequencyBuckets, templates |-> tpls, log |-> log]
    ELSE
      LET category == IF stored.found THEN stored.tpl.category ELSE "MARKETING"
          languageCode == languageCodeOf(body.template)
          p0 == [phoneId |-> id, to |-> to, templateName |-> body.template.name,
                 category |-> category]
          p1 == IF IsTruthy(languageCode) THEN Put(p0, "languageCode", languageCode) ELSE p0
          params == IF Has(body, "send_at")
                    THEN Put(p1, "sendAt", parseSendAt(body.send_at)) ELSE p1
          st2 == registerSend(ev.st, id, to, category, now)
      IN [response |->
            [status |-> 200,
             body |-> [messages |-> <<[id |-> <<"wamid.SANDBOX-MKT", now>>]>>,
                       contacts |-> <<[input |-> to, wa_id |-> to]>>,
                       customer_observable_action |->
                         IF Has(body, "customer_observable_action")
                         THEN body.customer_observable_action ELSE Null,
                       sandbox |->
                         [marketing |-> marketingEligibility,
                          frequency |-> frequency,
                          policy |-> policy,
                          messaging_limit |->
                            [tier |-> st2[id].tier,
                             total_cost_usd |-> st2[id].totalCostUsd,
                             unique_recipients_in_window |-> Len(st2[id].sends)],
                          marketing_record |-> marketingRecord(params, now, random)]]],
          states |-> st2,
          sends |-> capLedger(Append(sends, marketingRecord(params, now, random))),
          frequencyBuckets |-> registerMarketingSend(frequencyBuckets, config, params, now, random),
          templates |-> tpls,
          log |-> log]

(* ----------------------- actions: the send handlers -------------------- *)
\* a send_at in seconds: two seconds after the first window ends
SendAtSeconds == DEFAULT_WINDOW_MS \div 1000 + 2

PromoTemplate == [name |-> "promo", language |-> [code |-> "en"]]

MessageBodies ==
  {[to |-> r, type |-> "text"] : r \in NewRecipients}
    \cup {[to |-> 1, type |-> "template", template |-> PromoTemplate],
          [to |-> 1, type |-> "interactive",
           interactive |-> [type |-> "flow", flow_id |-> "f1"]]}

MarketingBodies ==
  {[to |-> r, type |-> "template", template |-> PromoTemplate] : r \in NewRecipients}
    \cup {[to |-> 1, type |-> "template", template |-> PromoTemplate,
           send_at |-> SendAtSeconds]}

Requests ==
  {[kind |-> "messages", id |-> "p1", body |-> b] : b \in MessageBodies}
    \cup {[kind |-> "marketing_messages", id |-> "p1", body |-> b] : b \in MarketingBodies}
    \cup {[kind |-> "messages", id |-> "p2", body |-> [to |-> 1, type |-> "text"]]}

RequestIds == DOMAIN inflight \cup DOMAIN responses

\* a request arrives: its body is parsed and its handler is yet to run
Receive ==
  \E req \in Requests :
    /\ Cardinality(RequestIds) < MaxRequests
    /\ inflight' = PutEntry(inflight, Cardinality(RequestIds) + 1, req)
    /\ lastResult' = [op |-> "receive"]
    /\ UNCHANGED <<now, limitVars, routingVars, marketingVars, storeVars, responses,
                   handlerLog, busVars>>

\* inflight without request rid
Taken(rid) == [k \in DOMAIN inflight \ {rid} |-> inflight[k]]

\* what the handler of rid observed: when it ran, which requests were still
\* waiting for their handler, and its view of the messaging limit
Logged(rid, log) ==
  PutEntry(handlerLog, rid, Spread([at |-> now, pending |-> DOMAIN inflight \ {rid}], log))

PostMessages ==
  \E rid \in DOMAIN inflight, random \in RandomSuffixes :
    /\ inflight[rid].kind = "messages"
    /\ LET out == postMessages(inflight[rid].id, inflight[rid].body, random) IN
       /\ states' = out.states
       /\ events' = out.events
       /\ deliveries' = out.deliveries
       /\ published' = out.published
       /\ templates' = out.templates
       /\ responses' = PutEntry(responses, rid, out.response)
       /\ handlerLog' = Logged(rid, out.log)
    /\ inflight' = Taken(rid)
    /\ lastResult' = [op |-> "postMessages", rid |-> rid]
    /\ UNCHANGED <<now, sendsMade, routingVars, marketingVars, policyContacts,
                   subscribers, unsubscribed>>

PostMarketingMessages ==
  \E rid \in DOMAIN inflight, random \in RandomSuffixes :
    /\ inflight[rid].kind = "marketing_messages"
    /\ LET out == postMarketingMessages(inflight[rid].id, inflight[rid].body, random) IN
       /\ states' = out.states
       /\ sends' = out.sends
       /\ frequencyBuckets' = out.frequencyBuckets
       /\ templates' = out.templates
       /\ responses' = PutEntry(responses, rid, out.response)
       /\ handlerLog' = Logged(rid, out.log)
    /\ inflight' = Taken(rid)
    /\ lastResult' = [op |-> "postMarketingMessages", rid |-> rid]
    /\ UNCHANGED <<now, sendsMade, routingVars, contacts, config, uncheckedPairs,
                   configChanged, policyContacts, events, busVars,
                   conversions>>

\* the instants at which requests arrive and handlers run
SendInstants == {1, DEFAULT_WINDOW_MS + 2}

\* the clock moves while requests wait
TickSend ==
  /\ \E t \in SendInstants : t > now /\ now' = t
  /\ lastResult' = [op |-> "none"]
  /\ UNCHANGED <<limitVars, routingVars, marketingVars, handlerVars>>

\* every recipient has opted in, and the template the requests name is approved
InitOptedIn ==
  /\ contacts = [r \in SendRecipients |->
                   upsertMarketingContact(<<>>, [waId |-> r, status |-> "opted_in"], 0)[r]]
  /\ policyContacts = <<>>
  /\ templates = createTemplate(<<>>, [name |-> "Promo", languageCode |-> "en",
                                        bodyText |-> "hi", category |-> "MARKETING",
                                        wabaId |-> "w1", status |-> "approved"], 1, "t1")

\* nobody has opted in, recipient 1 is blocked, and the template is pending
InitBlocked ==
  /\ contacts = <<>>
  /\ policyContacts = upsertContactPolicy(<<>>, [waId |-> 1, status |-> "blocked"], 0)
  /\ templates = createTemplate(<<>>, [name |-> "Promo", languageCode |-> "en",
                                        bodyText |-> "hi", category |-> "MARKETING",
                                        wabaId |-> "w1"], 1, "t1")

\* number p1 has sent nothing yet, or is one recipient below the limit of its tier
InitSendHistory ==
  /\ sendsMade = 0
  /\ \/ states = <<>>
     \/ \E tier \in HistoryTiers :
          states = [p \in {"p1"} |->
                      [phoneId |-> p, tier |-> tier, windowMs |-> DEFAULT_WINDOW_MS,
                       sends |-> historyOf(TIER_LIMITS[tier] - 1),
                       totalCostUsd |-> (TIER_LIMITS[tier] - 1) * CATEGORY_COST["UNKNOWN"]]]

\* phone p1 of WABA w1 is known
InitSend ==
  /\ InitIdle /\ InitSendHistory /\ InitNoRequests
  /\ phoneNumbers = upsertPhoneNumber(<<>>, [id |-> "p1", displayPhoneNumber |-> "+15550001",
                                             wabaId |-> "w1"], 0)
  /\ wabas = <<>> /\ runtimeConfig = initialRuntimeConfig /\ attemptsMade = 0
  /\ sends = <<>> /\ frequencyBuckets = <<>> /\ config = initialMarketingConfig
  /\ uncheckedPairs = {} /\ configChanged = FALSE /\ conversions = <<>>
  /\ InitNoEvents
  /\ InitOptedIn \/ InitBlocked

\* the send handlers under requests that wait together
SpecSend ==
  /\ InitSend
  /\ [][Receive \/ PostMessages \/ PostMarketingMessages \/ TickSend]_vars

(* ------------------------ claims: concurrent sends --------------------- *)
\* requests a and b were both waiting before either handler ran, both
\* handlers have run and both reached the messaging-limit check of number p
HandledTogether(a, b, p) ==
  /\ a \in DOMAIN handlerLog /\ b \in DOMAIN handlerLog
  /\ b \in handlerLog[a].pending
  /\ Has(handlerLog[a], "evaluation") /\ Has(handlerLog[b], "evaluation")
  /\ handlerLog[a].evaluation.phoneId = p /\ handlerLog[b].evaluation.phoneId = p

\* a ran first, for a new recipient, with exactly one unit of capacity left;
\* b ran in the same instant for another new recipient
LastUnitRace(a, b, p) ==
  /\ HandledTogether(a, b, p)
  /\ handlerLog[a].at = handlerLog[b].at
  /\ handlerLog[a].evaluation.to # handlerLog[b].evaluation.to
  /\ handlerLog[a].fresh /\ handlerLog[b].fresh
  /\ handlerLog[a].evaluation.limitUniqueRecipients # POSITIVE_INFINITY
  /\ handlerLog[a].evaluation.windowUniqueRecipients
       = handlerLog[a].evaluation.limitUniqueRecipients - 1

\* the handler of request a observed capacity and registered the send: both
\* handlers answer 200 exactly then
Registered(a) == handlerLog[a].evaluation.allowed /\ responses[a].status = 200

\* C3: of two send requests for one number that wait together, for two
\* different new recipients and with one unit of capacity left, at most one
\* observes capacity and registers; and once two requests that waited together
\* are both handled, the distinct in-window recipients of the number are
\* within its tier limit.
Thm_C3 ==
  \A p \in PhoneIds : \A a, b \in DOMAIN responses :
    /\ HandledTogether(a, b, p) => WithinTierLimit(states, p, now)
    /\ LastUnitRace(a, b, p) => ~(Registered(a) /\ Registered(b))

\* two requests raced for the last unit: the first got it, the second got 429
Wit_C3 ==
  \E p \in PhoneIds : \E a, b \in DOMAIN responses :
    /\ LastUnitRace(a, b, p)
    /\ Registered(a)
    /\ responses[b].status = 429
    /\ Cardinality(RecipientsInWindow(states, p, now)) = ClaimedLimit(states[p].tier)

(* ---------------------- claims: phone lifecycle ------------------------ *)
\* the register attempts of a phone that lie in the 72h window ending at t
RegistersInWindow(phone, t) ==
  {i \in 1..Len(phone.registerRequests) :
     /\ phone.registerRequests[i] >= t - 72 * 60 * 60 * 1000
     /\ phone.registerRequests[i] <= t}

\* C6: a phone never holds more than 10 successful register attempts in the
\* 72h window ending now; a rate_limited rejection happens with exactly 10
\* attempts in the window and carries attemptsInWindow = 10 and a retryAfterMs
\* between 0 and 72h.
Thm_C6 ==
  /\ \A id \in DOMAIN phoneNumbers :
       Cardinality(RegistersInWindow(phoneNumbers[id], now)) <= 10
  /\ (lastResult.op = "registerPhoneNumber" /\ lastResult.params.id \in DOMAIN phoneNumbers
        /\ ~lastResult.result.ok)
       => /\ lastResult.result.error = "rate_limited"
          /\ lastResult.result.attemptsInWindow = 10
          /\ Cardinality(RegistersInWindow(phoneNumbers[lastResult.params.id], now)) = 10
          /\ lastResult.result.retryAfterMs >= 0
          /\ lastResult.result.retryAfterMs <= 72 * 60 * 60 * 1000

\* an 11th register attempt inside the window has just been rejected
Wit_C6 ==
  /\ lastResult.op = "registerPhoneNumber"
  /\ ~lastResult.result.ok
  /\ lastResult.result.error = "rate_limited"
  /\ lastResult.result.attemptsInWindow = 10

StatusOf(pn, id) == pn[id].verificationStatus
PendingCodeOf(pn, id) ==
  IF "pendingVerificationCode" \in DOMAIN pn[id]
  THEN {pn[id].pendingVerificationCode.code} ELSE {}

C10_Step ==
  \A id \in PhoneIds :
    LET requested == lastResult'.op = "requestPhoneVerificationCode" /\ lastResult'.id = id
        verifying == lastResult'.op = "verifyPhoneNumberCode" /\ lastResult'.id = id
        matching == id \in DOMAIN phoneNumbers
                      /\ PendingCodeOf(phoneNumbers, id) = {lastResult'.code}
    IN /\ (requested /\ id \in DOMAIN phoneNumbers)
            => /\ StatusOf(phoneNumbers', id) = "PENDING"
               /\ PendingCodeOf(phoneNumbers', id) = {lastResult'.code}
       /\ (verifying /\ matching)
            => /\ lastResult'.returned
               /\ StatusOf(phoneNumbers', id) = "VERIFIED"
               /\ PendingCodeOf(phoneNumbers', id) = {}
       /\ (verifying /\ ~matching)
            => /\ ~lastResult'.returned
               /\ phoneNumbers' = phoneNumbers
       /\ (/\ id \in DOMAIN phoneNumbers'
           /\ StatusOf(phoneNumbers', id) = "VERIFIED"
           /\ (id \notin DOMAIN phoneNumbers \/ StatusOf(phoneNumbers, id) # "VERIFIED"))
            => (verifying /\ matching)

\* C10: a code request on a known phone sets PENDING and replaces the pending
\* code; a verify with the pending code sets VERIFIED and clears the code; a
\* verify with another code or with no pending code returns false and changes
\* nothing; a phone becomes VERIFIED only by a matching verify.
Thm_C10 == [][C10_Step]_vars

\* a phone was verified with its pending code
Wit_C10 ==
  /\ lastResult.op = "verifyPhoneNumberCode"
  /\ lastResult.returned
  /\ StatusOf(phoneNumbers, lastResult.id) = "VERIFIED"

\* a verify was refused because a newer code had replaced the one presented
Wit_C10_stale ==
  /\ lastResult.op = "verifyPhoneNumberCode"
  /\ ~lastResult.returned
  /\ lastResult.id \in DOMAIN phoneNumbers
  /\ PendingCodeOf(phoneNumbers, lastResult.id) # {}
  /\ StatusOf(phoneNumbers, lastResult.id) = "PENDING"

(* ------------------------- claims: resolver ---------------------------- *)
\* the override callback of a phone or WABA record, as a set of at most one URL
OverrideSet(obj) ==
  IF "overrideCallbackUri" \in DOMAIN obj /\ obj.overrideCallbackUri \notin {"", "null", "undefined"}
  THEN {obj.overrideCallbackUri} ELSE {}

PhoneOverride(id) ==
  IF "webhookConfiguration" \in DOMAIN phoneNumbers[id]
  THEN OverrideSet(phoneNumbers[id].webhookConfiguration) ELSE {}

WabaOverride(w) == IF w \in DOMAIN wabas THEN OverrideSet(wabas[w]) ELSE {}

OwnWabaOverride(id) ==
  IF "wabaId" \in DOMAIN phoneNumbers[id] THEN WabaOverride(phoneNumbers[id].wabaId) ELSE {}

GlobalDefault ==
  IF runtimeConfig.targetWebhookUrl \notin {"", "null", "undefined"}
  THEN {runtimeConfig.targetWebhookUrl} ELSE {}

Resolved == lastResult.op = "resolveWebhookTarget"
ResolvedWithKnownPhone ==
  /\ Resolved
  /\ "phoneNumberId" \in DOMAIN lastResult.opts
  /\ lastResult.opts.phoneNumberId \in DOMAIN phoneNumbers
ResolvedWithWabaOnly ==
  /\ Resolved
  /\ "phoneNumberId" \notin DOMAIN lastResult.opts
  /\ "wabaId" \in DOMAIN lastResult.opts

\* the result is the URL u answered by the tier named source
Answers(target, u, source) ==
  /\ "isNull" \notin DOMAIN target
  /\ target.url = u
  /\ target.source = source

\* C7: for a known phone, the phone's own override answers with source
\* 'phone' whenever it is set; otherwise the override of the phone's WABA
\* answers with source 'waba' whenever it is set.
Thm_C7 ==
  ResolvedWithKnownPhone =>
    LET id == lastResult.opts.phoneNumberId IN
    /\ \A u \in PhoneOverride(id) : Answers(lastResult.target, u, "phone")
    /\ PhoneOverride(id) = {}
         => \A u \in OwnWabaOverride(id) : Answers(lastResult.target, u, "waba")

\* phone, WABA and global targets were all set and the phone's override answered
Wit_C7 ==
  /\ ResolvedWithKnownPhone
  /\ PhoneOverride(lastResult.opts.phoneNumberId) # {}
  /\ OwnWabaOverride(lastResult.opts.phoneNumberId) # {}
  /\ GlobalDefault # {}
  /\ lastResult.target.source = "phone"

\* C8: with only a WABA id, that WABA's override answers with source 'waba'
\* if set, else the global default with source 'app' if configured, else the
\* result is null; and null is returned only when no tier matched.
Thm_C8 ==
  /\ ResolvedWithWabaOnly =>
       LET w == lastResult.opts.wabaId IN
       /\ \A u \in WabaOverride(w) : Answers(lastResult.target, u, "waba")
       /\ WabaOverride(w) = {}
            => /\ \A u \in GlobalDefault : Answers(lastResult.target, u, "app")
               /\ GlobalDefault = {} => lastResult.target = NullTarget
  /\ (Resolved /\ lastResult.target = NullTarget)
       => /\ GlobalDefault = {}
          /\ ("wabaId" \in DOMAIN lastResult.opts => WabaOverride(lastResult.opts.wabaId) = {})
          /\ ResolvedWithKnownPhone
               => /\ PhoneOverride(lastResult.opts.phoneNumberId) = {}
                  /\ OwnWabaOverride(lastResult.opts.phoneNumberId) = {}

\* with only a WABA id, the WABA override answered although a global default is set
Wit_C8 ==
  /\ ResolvedWithWabaOnly
  /\ WabaOverride(lastResult.opts.wabaId) # {}
  /\ GlobalDefault # {}
  /\ lastResult.target.source = "waba"

\* with only a WABA id and nothing configured, the result is null
Wit_C8_null ==
  /\ ResolvedWithWabaOnly
  /\ lastResult.target = NullTarget

\* C9: for a known phone with no override of its own and none on its own
\* WABA, the result is the global default or null, never the override of the
\* WABA named by the wabaId argument.
Cex_C9 ==
  (/\ ResolvedWithKnownPhone
   /\ PhoneOverride(lastResult.opts.phoneNumberId) = {}
   /\ OwnWabaOverride(lastResult.opts.phoneNumberId) = {})
    => /\ \A u \in GlobalDefault : Answers(lastResult.target, u, "app")
       /\ GlobalDefault = {} => lastResult.target = NullTarget


(* ----------------------- actions: the template store ------------------- *)
\* the suffix Math.random gives a template id; two templates created in the
\* same millisecond with the same suffix share their id
TemplateSuffixes == {"a1b2c3"}

\* what POST /:wabaId/message_templates hands to createTemplate; the last
\* input has neither body text nor components, and createTemplate throws
TemplateInputs ==
  {[name |-> "Promo", languageCode |-> "en", bodyText |-> "hi", wabaId |-> "w1"],
   [name |-> "Promo", languageCode |-> "en", status |-> "REJECTED",
    components |-> <<[type |-> "BODY", text |-> "hi"]>>],
   [name |-> "Promo", languageCode |-> "en"]}

\* patches of updateTemplate: with a status, without one, and one that clears
\* the rejection reason
TemplatePatches ==
  {[status |-> "APPROVED"],
   [status |-> "REJECTED", rejectionReason |-> Null],
   [bodyText |-> "bye", wabaId |-> Null,
    components |-> <<[type |-> "BODY", text |-> "new"]>>]}

StatusOptions == {EmptyObject, [rejectionReason |-> "SCAM", rejectionNote |-> "late"]}

\* the statuses POST /:templateId/status is asked for
RequestedStatuses == {"PAUSED", "REJECTED"}

\* the instants at which the template store is used
TemplateInstants == {1, 2}

TickTemplates ==
  /\ \E t \in TemplateInstants : t > now /\ now' = t
  /\ lastResult' = [op |-> "none"]
  /\ UNCHANGED <<handlerVars, limitVars, routingVars, marketingVars>>

TemplateIds == {templates[i].id : i \in 1..Len(templates)}

RECURSIVE auditEntries(_)
\* the audit entries of all templates of the store
auditEntries(store) ==
  IF store = <<>> THEN 0 ELSE Len(Head(store).statusHistory) + auditEntries(Tail(store))

\* the status updates the stored templates have received since their creation
StatusUpdatesMade == auditEntries(templates) - Len(templates)

templateById(store, id) == store[indexOfTemplate(store, id)]

CreateTemplate ==
  \E input \in TemplateInputs, random \in TemplateSuffixes :
    /\ templates' = createTemplate(templates, input, now, random)
    /\ lastResult' = [op |-> "createTemplate", threw |-> createTemplateThrows(input),
                      id |-> <<"tpl", now, random>>]
    /\ UNCHANGED <<now, limitVars, routingVars, marketingVars, policyContacts, events,
                   requestVars, busVars>>

\* an id no template has
UnknownTemplateId == <<"tpl", 0, "none">>

UpdateTemplate ==
  \E id \in TemplateIds \cup {UnknownTemplateId}, patch \in TemplatePatches :
    /\ id \in TemplateIds /\ Has(patch, "status") => StatusUpdatesMade < MaxStatusUpdates
    /\ templates' = updateTemplate(templates, id, patch, now)
    /\ lastResult' = [op |-> "updateTemplate", id |-> id, found |-> id \in TemplateIds,
                      statusGiven |-> Truthy(patch, "status")]
    /\ UNCHANGED <<now, limitVars, routingVars, marketingVars, policyContacts, events,
                   requestVars, busVars>>

UpdateTemplateStatus ==
  \E id \in TemplateIds \cup {UnknownTemplateId}, status \in RequestedStatuses,
     opts \in StatusOptions :
    /\ id \in TemplateIds => StatusUpdatesMade < MaxStatusUpdates
    /\ templates' = updateTemplateStatus(templates, id, status, opts, now)
    /\ lastResult' = [op |-> "updateTemplateStatus", id |-> id,
                      found |-> id \in TemplateIds, statusGiven |-> TRUE]
    /\ UNCHANGED <<now, limitVars, routingVars, marketingVars, policyContacts, events,
                   requestVars, busVars>>

\* a read: listTemplates, getTemplateById and getTemplateByName all shape the
\* stored templates
ListTemplates ==
  /\ templates' = listTemplates(templates, now)
  /\ lastResult' = [op |-> "listTemplates"]
  /\ UNCHANGED <<now, limitVars, routingVars, marketingVars, policyContacts, events,
                 requestVars, busVars>>

NextTemplates ==
  CreateTemplate \/ UpdateTemplate \/ UpdateTemplateStatus \/ ListTemplates \/ TickTemplates

\* the template store
SpecTemplates ==
  /\ InitAll
  /\ [][NextTemplates]_vars

\* s is an initial segment of t
IsPrefix(s, t) == Len(s) <= Len(t) /\ \A i \in 1..Len(s) : s[i] = t[i]

\* the last audit entry of every stored template carries its current status
LastEntryIsCurrent ==
  \A i \in 1..Len(templates) :
    /\ Len(templates[i].statusHistory) >= 1
    /\ templates[i].statusHistory[Len(templates[i].statusHistory)].status
         = templates[i].status

\* a step keeps every audit entry of every template in place, unless the step
\* is a createTemplate that stores a new template under that id
HistoryOnlyAppended ==
  \A i \in 1..Len(templates) :
    \/ lastResult'.op = "createTemplate" /\ lastResult'.id = templates[i].id
    \/ /\ templates[i].id \in {templates'[j].id : j \in 1..Len(templates')}
       /\ IsPrefix(templates[i].statusHistory,
                   templateById(templates', templates[i].id).statusHistory)

\* a status update of a stored template adds one audit entry, with the status
\* the template now has
StatusUpdateAppendsOne ==
  /\ lastResult'.op \in {"updateTemplate", "updateTemplateStatus"}
  /\ lastResult'.found /\ lastResult'.statusGiven
  => LET before == templateById(templates, lastResult'.id)
         after == templateById(templates', lastResult'.id)
     IN /\ Len(after.statusHistory) = Len(before.statusHistory) + 1
        /\ after.statusHistory[Len(after.statusHistory)].status = after.status

\* C11: whatever createTemplate, updateTemplate, updateTemplateStatus and
\* reads do, the statusHistory of a template only grows by appending, every
\* status update appends exactly one entry, and the last entry's status is
\* the template's current status
Thm_C11 ==
  /\ []LastEntryIsCurrent
  /\ [][HistoryOnlyAppended /\ StatusUpdateAppendsOne]_vars

\* a template whose status was updated twice has just been read
Wit_C11 ==
  /\ lastResult.op = "listTemplates"
  /\ \E i \in 1..Len(templates) :
       LET h == templates[i].statusHistory IN
       /\ Len(h) = 3 /\ h[1].status # h[2].status /\ h[2].status # h[3].status
       /\ templates[i].status = h[3].status


(* ------------------------- actions: the event store -------------------- *)
\* the event a caller hands to addEvent: callers number their events
numberedEvent(n) ==
  [direction |-> "system", type |-> "config.update", source |-> "config", payload |-> n]

EventInstants == {1, 2}

TickEvents ==
  /\ \E t \in EventInstants : t > now /\ now' = t
  /\ lastResult' = [op |-> "none"]
  /\ UNCHANGED <<handlerVars, limitVars, routingVars, marketingVars>>

\* addEvent, called while fewer than max events have been published
AddEventBelow(max) ==
  \E random \in RandomSuffixes :
    LET event == numberedEvent(published + 1) IN
    /\ published < max
    /\ events' = addEvent(events, event, now, random)
    /\ published' = published + 1
    /\ deliveries' = deliveries \o notified(subscribers, enriched(event, now, random))
    /\ lastResult' = [op |-> "addEvent", returned |-> enriched(event, now, random)]
    /\ UNCHANGED <<now, limitVars, routingVars, marketingVars, policyContacts, templates,
                   requestVars, subscribers, unsubscribed>>

AddEvent == AddEventBelow(MaxPublished)

\* the event log alone
SpecEvents ==
  /\ InitAll
  /\ [][AddEvent \/ TickEvents]_vars

\* the payload numbers of the log, in order
Numbers(evts) == [i \in 1..Len(evts) |-> evts[i].payload]

\* the numbers from a to b in order
FromTo(a, b) == [i \in 1..(b - a + 1) |-> a + i - 1]

\* C12: after any number of addEvent calls the log holds at most 200 events,
\* the most recently added ones in the order they were added; after 250
\* events it holds exactly events 51 to 250
Thm_C12 ==
  /\ Len(events) <= 200
  /\ Len(events) = IF published < 200 THEN published ELSE 200
  /\ Numbers(events) = FromTo(published - Len(events) + 1, published)
  /\ published = 250 => Numbers(events) = FromTo(51, 250)

\* the 250th event has just been added
Wit_C12 ==
  /\ lastResult.op = "addEvent" /\ lastResult.returned.payload = 250
  /\ Len(events) = 200 /\ events[1].payload = 51 /\ events[200] = lastResult.returned

(* --------------------- actions: the event subscribers ------------------ *)
\* the ids of the subscribers created so far
SubscriberIds == {subscribers[i].id : i \in 1..Len(subscribers)} \cup unsubscribed

\* GET /events/stream: a new subscriber is added; it may be one that throws
\* whenever it is called
Subscribe ==
  \E throws \in BOOLEAN :
    /\ Cardinality(SubscriberIds) < MaxSubscribers
    /\ subscribers' = subscribe(subscribers, [id |-> Cardinality(SubscriberIds) + 1,
                                               throws |-> throws])
    /\ lastResult' = [op |-> "subscribe"]
    /\ UNCHANGED <<now, limitVars, routingVars, marketingVars, storeVars, requestVars,
                   deliveries, unsubscribed, published>>

\* the function subscribe returned is called, for the first time or again
Unsubscribe ==
  \E id \in SubscriberIds :
    /\ subscribers' = unsubscribe(subscribers, id)
    /\ unsubscribed' = unsubscribed \cup {id}
    /\ lastResult' = [op |-> "unsubscribe", id |-> id]
    /\ UNCHANGED <<now, limitVars, routingVars, marketingVars, storeVars, requestVars,
                   deliveries, published>>

\* the log after n events, fewer than the cap, were published at time 0
backlog(n) == [i \in 1..n |-> enriched(numberedEvent(i), 0, "k3x9q1")]

\* one event short of the cap
FullBacklog == maxEvents - 1

\* addEvent, called for the first events of a process or on top of a full log
AddEventObserved ==
  \/ AddEventBelow(MaxObserved)
  \/ published >= FullBacklog /\ AddEventBelow(FullBacklog + MaxObserved)

InitBus ==
  /\ InitIdle /\ InitNoSends /\ InitRouting /\ InitMarketing /\ InitNoRequests
  /\ policyContacts = <<>> /\ templates = <<>>
  /\ \E n \in {0, FullBacklog} : events = backlog(n) /\ published = n

\* the event store with its subscribers
SpecBus ==
  /\ InitBus
  /\ [][Subscribe \/ Unsubscribe \/ AddEventObserved]_vars

\* the calls made to subscribers in the step
NewDeliveries == SubSeq(deliveries', Len(deliveries) + 1, Len(deliveries'))

\* an addEvent step calls each subscriber of the set once with the event it
\* returns, calls nobody else, and leaves that event last in the log
PublishedToAll ==
  lastResult'.op = "addEvent" =>
    LET event == lastResult'.returned IN
    /\ \A i \in 1..Len(subscribers) :
         Cardinality({k \in 1..Len(NewDeliveries) :
                        NewDeliveries[k] = [subscriber |-> subscribers[i].id,
                                            event |-> event.id]}) = 1
    /\ \A k \in 1..Len(NewDeliveries) :
         /\ NewDeliveries[k].subscriber \in {subscribers[i].id : i \in 1..Len(subscribers)}
         /\ NewDeliveries[k].subscriber \notin unsubscribed
    /\ Len(events') >= 1 /\ events'[Len(events')] = event
    /\ event.payload = published + 1

\* C13: when a subscriber throws while addEvent notifies it, every other
\* subscriber of that publish is still called exactly once with the event,
\* the event is in the log and addEvent returns it; a subscriber whose
\* unsubscribe function was called is not called for later events
Thm_C13 == [][PublishedToAll]_vars

\* an event was published on top of a full log while a throwing subscriber
\* stood before a healthy one and a third had unsubscribed
Wit_C13 ==
  /\ lastResult.op = "addEvent" /\ Len(events) = maxEvents
  /\ published > maxEvents
  /\ unsubscribed # {}
  /\ \E i, j \in 1..Len(subscribers) :
       /\ i < j /\ subscribers[i].throws /\ ~subscribers[j].throws
       /\ \E k \in 1..Len(deliveries) :
            deliveries[k] = [subscriber |-> subscribers[j].id,
                             event |-> lastResult.returned.id]


(* ------------------------- actions: contact policy --------------------- *)
PolicyContacts == {1, 2}

\* what PUT /policy/contacts/:waId hands to upsertContactPolicy: the body is
\* not validated, so the status may be any word, or missing
PolicyInputs ==
  {[waId |-> w, status |-> st] : w \in PolicyContacts,
                                 st \in ContactStatuses \cup {"banned"}}
    \cup {[waId |-> w, note |-> "vip"] : w \in PolicyContacts}

UpsertContactPolicy ==
  \E input \in PolicyInputs :
    /\ policyContacts' = upsertContactPolicy(policyContacts, input, now)
    /\ lastResult' = [op |-> "upsertContactPolicy", waId |-> input.waId]
    /\ UNCHANGED <<now, limitVars, routingVars, marketingVars, templates, events,
                   requestVars, busVars>>

EvaluatePolicyForWaId ==
  \E waId \in PolicyContacts :
    /\ lastResult' = [op |-> "evaluatePolicyForWaId", waId |-> waId,
                      result |-> evaluatePolicyForWaId(policyContacts, waId)]
    /\ UNCHANGED <<now, limitVars, routingVars, marketingVars, handlerVars>>

\* the contact policy store
SpecPolicy ==
  /\ InitAll
  /\ [][UpsertContactPolicy \/ EvaluatePolicyForWaId \/ TickEvents]_vars

\* the case a contact is in, from the store
PolicyCase(waId) ==
  IF waId \notin DOMAIN policyContacts THEN "no_record"
  ELSE IF policyContacts[waId].status = "blocked" THEN "blocked"
  ELSE IF policyContacts[waId].status = "allowed" THEN "allowed"
  ELSE "other"

\* the case a caller reads off a returned evaluation
ReadCase(evaluation) ==
  IF ~evaluation.allowed THEN "blocked"
  ELSE IF ~Has(evaluation, "contact") /\ evaluation.reason = "no_explicit_policy"
  THEN "no_record"
  ELSE IF evaluation.status = "allowed" THEN "allowed"
  ELSE "other"

\* C14: evaluatePolicyForWaId answers allowed = false exactly when the contact
\* has a record with status blocked; without a record it answers allowed with
\* reason no_explicit_policy; and the cases explicitly allowed, explicitly
\* blocked and no record can be told apart from the returned value
Thm_C14 ==
  lastResult.op = "evaluatePolicyForWaId" =>
    LET r == lastResult.result
        waId == lastResult.waId
    IN /\ ~r.allowed <=> PolicyCase(waId) = "blocked"
       /\ PolicyCase(waId) = "no_record" =>
            /\ r.allowed /\ r.reason = "no_explicit_policy" /\ r.status = "unknown"
            /\ ~Has(r, "contact")
       /\ PolicyCase(waId) # "no_record" =>
            Has(r, "contact") /\ r.contact = policyContacts[waId]
       /\ ReadCase(r) = PolicyCase(waId)

\* a contact with a record of status unknown has been evaluated while the
\* other contact is blocked
Wit_C14 ==
  /\ lastResult.op = "evaluatePolicyForWaId"
  /\ PolicyCase(lastResult.waId) = "other"
  /\ lastResult.result.status = "unknown" /\ lastResult.result.allowed
  /\ \E w \in PolicyContacts : PolicyCase(w) = "blocked"


(* ------------------- the send handlers, check by check ----------------- *)
\* the instant at which the waiting request is handled
CheckNow == DEFAULT_WINDOW_MS + 2

\* an earlier marketing send of p1 to recipient 1, accepted at time 1 and
\* scheduled for two seconds after the first window ends
PriorParams ==
  [phoneId |-> "p1", to |-> 1, templateName |-> "promo", category |-> "MARKETING",
   languageCode |-> "en", sendAt |-> parseSendAt(SendAtSeconds)]

\* k sends to recipients 2..k+1, all inside the window at CheckNow
recentHistory(k) ==
  [i \in 1..k |-> [to |-> i + 1, category |-> "UNKNOWN",
                   timestamp |-> DEFAULT_WINDOW_MS + 1,
                   costUsd |-> CATEGORY_COST["UNKNOWN"]]]

\* the tracker of p1: after the earlier send or not, and with its tier's
\* limit of recipients reached inside the window or with nothing else sent
InitCheckLimit ==
  /\ sendsMade = 0
  /\ \E prior \in BOOLEAN, full \in BOOLEAN :
       LET first == IF prior THEN registerSend(<<>>, "p1", 1, "MARKETING", 1) ELSE <<>>
           k == IF full THEN TIER_LIMITS["TIER_250"] ELSE 0
       IN /\ states =
               IF ~prior /\ ~full THEN <<>>
               ELSE [p \in {"p1"} |->
                       [getOrCreateState(first, p) EXCEPT
                          !.tier = IF full THEN "TIER_250" ELSE @,
                          !.sends = @ \o recentHistory(k),
                          !.totalCostUsd = @ + k * CATEGORY_COST["UNKNOWN"]]]
          /\ sends = IF prior THEN capLedger(<<marketingRecord(PriorParams, 1, "k3x9q1")>>)
                     ELSE <<>>
          /\ frequencyBuckets =
               IF prior
               THEN registerMarketingSend(<<>>, initialMarketingConfig, PriorParams, 1, "k3x9q1")
               ELSE <<>>

\* recipient 1 has opted in or out; it is blocked, allowed or unknown to the
\* contact policy; the template is approved, pending or not stored
InitCheckStores ==
  /\ \E st \in {"opted_in", "opted_out"} :
       contacts = upsertMarketingContact(<<>>, [waId |-> 1, status |-> st], 1)
  /\ \/ policyContacts = <<>>
     \/ \E st \in {"blocked", "allowed"} :
          policyContacts = upsertContactPolicy(<<>>, [waId |-> 1, status |-> st], 1)
  /\ \/ templates = <<>>
     \/ \E input \in {[name |-> "Promo", languageCode |-> "en", bodyText |-> "hi",
                         category |-> "MARKETING", wabaId |-> "w1", status |-> st] :
                          st \in {"APPROVED", "PENDING"}} :
          templates = createTemplate(<<>>, input, 1, "t1")

\* the requests whose checks are followed
CheckRequests ==
  {[kind |-> "marketing_messages", id |-> "p1",
    body |-> [to |-> 1, type |-> "template", template |-> PromoTemplate]],
   [kind |-> "messages", id |-> "p1",
    body |-> [to |-> 1, type |-> "template", template |-> PromoTemplate]],
   [kind |-> "messages", id |-> "p1",
    body |-> [to |-> 1, type |-> "template",
              template |-> Put(PromoTemplate, "category", "marketing")]],
   [kind |-> "messages", id |-> "p1", body |-> [to |-> 1, type |-> "text"]],
   [kind |-> "marketing_messages", id |-> "p2",
    body |-> [to |-> 1, type |-> "template", template |-> PromoTemplate]]}

\* one request has been received and waits for its handler
InitChecks ==
  /\ lastResult = [op |-> "receive"] /\ now = CheckNow
  /\ InitCheckLimit /\ InitCheckStores
  /\ phoneNumbers = upsertPhoneNumber(<<>>, [id |-> "p1", displayPhoneNumber |-> "+15550001",
                                             wabaId |-> "w1"], 0)
  /\ wabas = <<>> /\ runtimeConfig = initialRuntimeConfig /\ attemptsMade = 0
  /\ config = initialMarketingConfig /\ uncheckedPairs = {} /\ configChanged = FALSE /\ conversions = <<>>
  /\ InitNoEvents /\ InitNoSubscribers
  /\ \E req \in CheckRequests : inflight = PutEntry(<<>>, 1, req)
  /\ responses = <<>> /\ handlerLog = <<>>

\* the handlers, each on a request that waits alone
SpecChecks ==
  /\ InitChecks
  /\ [][PostMessages \/ PostMarketingMessages]_vars

(* ------------------------ claims: the send handlers -------------------- *)
\* the step is the handling of a request of the kind
Handles(op) == lastResult'.op = op

\* the request the step handles and the response it sends
HandledRequest == inflight[lastResult'.rid]
HandledResponse == responses'[lastResult'.rid]

\* what a response says happened to the send
Outcome(response) ==
  IF response.status = 200 THEN "sent"
  ELSE IF response.status = 429
  THEN IF response.body.error.code = 131051 THEN "frequency_cap" ELSE "messaging_limit"
  ELSE response.body.error

\* the recipient has a policy record with status blocked
PolicyBlocked(to) == to \in DOMAIN policyContacts /\ policyContacts[to].status = "blocked"

\* opt-in is required and the recipient has not opted in
NotOptedIn(to) ==
  \/ to \in DOMAIN contacts /\ contacts[to].status = "opted_out"
  \/ /\ config.requireOptIn
     /\ to \notin DOMAIN contacts \/ contacts[to].status # "opted_in"

\* the bucket of (p, to) holds maxSendsPerWindow records or more whose
\* effective time is not before the frequency window
OverFrequencyCap(p, to) ==
  /\ <<p, to>> \in DOMAIN frequencyBuckets
  /\ Cardinality({i \in 1..Len(frequencyBuckets[<<p, to>>]) :
        LET r == frequencyBuckets[<<p, to>>][i]
        IN (IF "scheduledFor" \in DOMAIN r THEN r.scheduledFor ELSE r.sendTimestamp)
             >= now - config.frequencyWindowMs}) >= config.maxSendsPerWindow

\* the number has reached the limit of its tier and the recipient is not
\* among the recipients of its window
AtMessagingLimit(p, to) ==
  /\ p \in DOMAIN states /\ states[p].tier # "TIER_UNLIMITED"
  /\ to \notin RecipientsInWindow(states, p, now)
  /\ Cardinality(RecipientsInWindow(states, p, now)) >= ClaimedLimit(states[p].tier)

\* the request reaches the checks of POST /:id/marketing_messages
ReachesMarketingChecks(req) ==
  /\ req.kind = "marketing_messages" /\ req.id \in DOMAIN phoneNumbers
  /\ Has(req.body, "to") /\ Has(req.body, "type") /\ req.body.type = "template"
  /\ Has(req.body, "template") /\ Has(req.body.template, "name")

\* the first failing check, in the order policy, opt-in, frequency, limit
FirstFailing(p, to) ==
  IF PolicyBlocked(to) THEN "contact_blocked_by_policy"
  ELSE IF NotOptedIn(to) THEN "marketing_opt_in_required"
  ELSE IF OverFrequencyCap(p, to) THEN "frequency_cap"
  ELSE IF AtMessagingLimit(p, to) THEN "messaging_limit"
  ELSE "none"

MarketingChecksInOrder ==
  Handles("postMarketingMessages") /\ ReachesMarketingChecks(HandledRequest) =>
    LET failing == FirstFailing(HandledRequest.id, HandledRequest.body.to) IN
    IF failing = "none"
    THEN Outcome(HandledResponse) \in {"sent", "template_not_approved"}
    ELSE Outcome(HandledResponse) = failing

\* C15: a marketing send request is checked for contact policy, marketing
\* eligibility, frequency cap and messaging limit in this order, and the
\* first check that fails decides the rejection
Thm_C15 == [][MarketingChecksInOrder]_vars

\* a marketing request for a recipient over the frequency cap, on a number at
\* its messaging limit for that recipient, was rejected for frequency
Wit_C15 ==
  /\ lastResult.op = "postMarketingMessages"
  /\ Outcome(responses[lastResult.rid]) = "frequency_cap"
  /\ ~PolicyBlocked(1) /\ ~NotOptedIn(1)
  /\ OverFrequencyCap("p1", 1) /\ AtMessagingLimit("p1", 1)

\* the sends and the cost of number p in the tracker st
SendsOf(st, p) == IF p \in DOMAIN st THEN st[p].sends ELSE <<>>
CostOf(st, p) == IF p \in DOMAIN st THEN st[p].totalCostUsd ELSE 0

\* the step appends no SendEvent, leaves every cost, the ledger and the
\* buckets as they were
NothingRegistered ==
  /\ \A p \in DOMAIN states' :
       /\ Len(SendsOf(states', p)) <= Len(SendsOf(states, p))
       /\ Range(SendsOf(states', p)) \subseteq Range(SendsOf(states, p))
       /\ CostOf(states', p) = CostOf(states, p)
  /\ sends' = sends
  /\ frequencyBuckets' = frequencyBuckets

RejectedRegistersNothing ==
  /\ Handles("postMessages") \/ Handles("postMarketingMessages")
  /\ Outcome(HandledResponse) # "sent"
  => NothingRegistered

\* C16: a send request that is rejected, for whatever reason, registers
\* nothing: no SendEvent is appended, no cost is added, and neither the
\* marketing ledger nor a frequency bucket gets a record
Thm_C16 == [][RejectedRegistersNothing]_vars

\* a request was rejected at the messaging limit, after the evaluation had
\* pruned the sends of the number
Wit_C16 ==
  /\ lastResult.op \in {"postMessages", "postMarketingMessages"}
  /\ Outcome(responses[lastResult.rid]) = "messaging_limit"
  /\ "p1" \in DOMAIN states /\ Len(states["p1"].sends) = 250
  /\ sends # <<>>

\* a successful send publishes one event
SentPublishesOne ==
  /\ Handles("postMessages") \/ Handles("postMarketingMessages")
  /\ Outcome(HandledResponse) = "sent"
  => /\ published' = published + 1
     /\ \E e \in Range(events') : e \notin Range(events)
     /\ Len(SendsOf(states', HandledRequest.id)) >= 1

\* C17: every successful send, through the messages endpoint and through the
\* marketing_messages endpoint alike, publishes exactly one event after the
\* send has been registered
Cex_C17 == [][SentPublishesOne]_vars

\* the request is a template send: POST /:id/messages with type template, or
\* POST /:id/marketing_messages
TemplateSend(req) ==
  /\ req.id \in DOMAIN phoneNumbers
  /\ Has(req.body, "to") /\ Has(req.body, "type") /\ req.body.type = "template"
  /\ Has(req.body, "template") /\ Has(req.body.template, "name")

\* a stored template with the name and language the request names, of the
\* WABA of the number, is not APPROVED
NamesUnapprovedTemplate(req) ==
  \E i \in 1..Len(templates) :
    /\ templates[i].status # "APPROVED"
    /\ toLowerCase(templates[i].name) = toLowerCase(req.body.template.name)
    /\ templates[i].languageCode = languageCodeOf(req.body.template)
    /\ Has(templates[i], "wabaId") /\ Has(phoneNumbers[req.id], "wabaId")
    /\ templates[i].wabaId = phoneNumbers[req.id].wabaId

UnapprovedAlwaysRejected ==
  /\ Handles("postMessages") \/ Handles("postMarketingMessages")
  /\ TemplateSend(HandledRequest) /\ NamesUnapprovedTemplate(HandledRequest)
  => Outcome(HandledResponse) = "template_not_approved"

\* C18: a template send that names a stored template of the number's WABA
\* whose status is not APPROVED is always rejected with
\* template_not_approved, whatever else the payload contains
Cex_C18 == [][UnapprovedAlwaysRejected]_vars


(* ------------------------ claims: rolling windows ---------------------- *)
\* the tracker under evaluations, registrations and summaries
SpecWindow ==
  /\ InitLimitSpec
  /\ [][Tick \/ EvaluateMessagingLimit \/ RegisterSend \/ GetMessagingSummaryForPhone]_vars

\* C19: directly after an evaluateMessagingLimit, a registerSend or a
\* getMessagingSummaryForPhone at time now, the stored send sequence of the
\* number holds only events with timestamp >= now - windowMs
Cex_C19 ==
  lastResult.op \in {"evaluateMessagingLimit", "registerSend", "getMessagingSummaryForPhone"}
    => \A e \in Range(states[lastResult.phoneId].sends) :
         e.timestamp >= lastResult.now - states[lastResult.phoneId].windowMs

\* C20: directly after an evaluateMarketingFrequency or a
\* registerMarketingSend at time now, the stored bucket of the pair holds only
\* records whose effective time (scheduledFor, else send time) is
\* >= now - frequencyWindowMs
Cex_C20 ==
  /\ lastResult.op = "evaluateMarketingFrequency" =>
       \A r \in Range(bucketOf(frequencyBuckets, <<lastResult.phoneId, lastResult.to>>)) :
         effectiveTime(r) >= now - config.frequencyWindowMs
  /\ lastResult.op = "registerMarketingSend" =>
       \A r \in Range(bucketOf(frequencyBuckets,
                                <<lastResult.params.phoneId, lastResult.params.to>>)) :
         effectiveTime(r) >= now - config.frequencyWindowMs

(* --------------------- claims: phone registration ---------------------- *)
\* phone p2 after a code request, its verification and one registration
\* with a region, all at time 0
registeredPhone ==
  LET fresh == newPhone([id |-> "p2", displayPhoneNumber |-> "+15550002"], 0)
      verified ==
        verifyPhoneNumberCode(requestPhoneVerificationCode(fresh, "222222", "SMS", "en_US", 0))
  IN registerPhoneNumber(verified,
                         [id |-> "p2", pin |-> "654321", dataLocalizationRegion |-> "us"],
                         0).phone

\* two numbers: p1 with a code pending and either throttle empty or one
\* attempt short of the limit, p2 verified and registered
InitRegistration ==
  /\ wabas = <<>>
  /\ runtimeConfig = initialRuntimeConfig
  /\ attemptsMade = 0
  /\ \E k \in {0, REQUEST_LIMIT - 1}, d \in {0, REQUEST_LIMIT - 1} :
       phoneNumbers =
         [id \in PhoneIds |->
            IF id = "p1"
            THEN requestPhoneVerificationCode(phoneWithAttempts(k, d),
                                              "111111", "SMS", "en_US", 0)
            ELSE registeredPhone]

InitRegistrationSpec ==
  InitIdle /\ InitNoSends /\ InitRegistration /\ InitMarketing /\ InitStores /\ InitNoRequests

\* registrations and deregistrations of two numbers
SpecRegistration ==
  /\ InitRegistrationSpec
  /\ [][RegisterPhoneNumber \/ DeregisterPhoneNumber \/ TickThrottle]_vars

\* the step is a call of op on an existing number that returned ok
Succeeded(op) == lastResult'.op = op /\ lastResult'.result.ok
\* the step is a call of op that was rejected as rate_limited
RateLimited(op) ==
  /\ lastResult'.op = op
  /\ ~lastResult'.result.ok
  /\ lastResult'.result.error = "rate_limited"

\* the value of a field of a phone, as a set that is empty when it is absent
FieldOf(phone, key) == IF Has(phone, key) THEN {phone[key]} ELSE {}

\* what a successful registerPhoneNumber leaves apart from the region
RegisterStoresPin ==
  Succeeded("registerPhoneNumber") =>
    LET after == phoneNumbers'[lastResult'.params.id] IN
    /\ FieldOf(after, "twoStepVerificationPin") = {lastResult'.params.pin}
    /\ after.registered = TRUE
    /\ ~Has(lastResult'.params, "dataLocalizationRegion")
         => ~Has(after, "dataLocalizationRegion")

\* what a successful deregisterPhoneNumber leaves
DeregisterKeepsPin ==
  Succeeded("deregisterPhoneNumber") =>
    LET before == phoneNumbers[lastResult'.params.id]
        after == phoneNumbers'[lastResult'.params.id]
    IN /\ after.registered = FALSE
       /\ ~Has(after, "dataLocalizationRegion")
       /\ FieldOf(after, "twoStepVerificationPin") = FieldOf(before, "twoStepVerificationPin")
       /\ after.verificationStatus = before.verificationStatus
       /\ FieldOf(after, "pendingVerificationCode") = FieldOf(before, "pendingVerificationCode")

C21_AsGiven ==
  /\ RegisterStoresPin
  /\ DeregisterKeepsPin
  /\ (Succeeded("registerPhoneNumber") /\ Has(lastResult'.params, "dataLocalizationRegion")) =>
       FieldOf(phoneNumbers'[lastResult'.params.id], "dataLocalizationRegion")
         = {lastResult'.params.dataLocalizationRegion}

C21_UpperCased ==
  /\ RegisterStoresPin
  /\ DeregisterKeepsPin
  /\ (Succeeded("registerPhoneNumber") /\ Has(lastResult'.params, "dataLocalizationRegion")) =>
       FieldOf(phoneNumbers'[lastResult'.params.id], "dataLocalizationRegion")
         = {IF lastResult'.params.dataLocalizationRegion = "us" THEN "US"
            ELSE lastResult'.params.dataLocalizationRegion}

RegistrationOf(phone) ==
  <<phone.registered, FieldOf(phone, "twoStepVerificationPin"),
    FieldOf(phone, "dataLocalizationRegion")>>

C22_Step ==
  /\ RateLimited("registerPhoneNumber") =>
       LET before == phoneNumbers[lastResult'.params.id]
           after == phoneNumbers'[lastResult'.params.id]
       IN /\ RegistrationOf(after) = RegistrationOf(before)
          /\ after.registerRequests = pruneWindow(before.registerRequests, now)
          /\ after.deregisterRequests = before.deregisterRequests
  /\ RateLimited("deregisterPhoneNumber") =>
       LET before == phoneNumbers[lastResult'.params.id]
           after == phoneNumbers'[lastResult'.params.id]
       IN /\ RegistrationOf(after) = RegistrationOf(before)
          /\ after.deregisterRequests = pruneWindow(before.deregisterRequests, now)
          /\ after.registerRequests = before.registerRequests

\* C22: a register or deregister call rejected as rate_limited leaves
\* registered, the PIN and the region of the number as they were, and its
\* attempt history holds the earlier attempts still in the window and nothing
\* more: the rejected attempt is not recorded
Thm_C22 == [][C22_Step]_vars

\* a deregistration of a registered number with a region has just been
\* rejected as rate_limited, and the number is still registered with its region
Wit_C22 ==
  /\ lastResult.op = "deregisterPhoneNumber"
  /\ ~lastResult.result.ok
  /\ lastResult.result.error = "rate_limited"
  /\ phoneNumbers[lastResult.params.id].registered
  /\ Has(phoneNumbers[lastResult.params.id], "dataLocalizationRegion")
  /\ Len(phoneNumbers[lastResult.params.id].deregisterRequests) = REQUEST_LIMIT

\* the result that a throttle with these earlier attempts gives at time t
ThrottleResult(history, t) ==
  LET attempts == pruneWindow(history, t) IN
  IF Len(attempts) >= REQUEST_LIMIT
  THEN [ok |-> FALSE, error |-> "rate_limited",
        retryAfterMs |-> Max0(MinOf(attempts) + REQUEST_WINDOW_MS - t),
        attemptsInWindow |-> Len(attempts)]
  ELSE [ok |-> TRUE]

\* every other number is as it was
OthersUnchanged(id) ==
  /\ DOMAIN phoneNumbers' = DOMAIN phoneNumbers
  /\ \A other \in DOMAIN phoneNumbers \ {id} : phoneNumbers'[other] = phoneNumbers[other]

C23_Step ==
  /\ lastResult'.op = "registerPhoneNumber" =>
       LET id == lastResult'.params.id IN
       /\ lastResult'.result = ThrottleResult(phoneNumbers[id].registerRequests, now)
       /\ phoneNumbers'[id].deregisterRequests = phoneNumbers[id].deregisterRequests
       /\ OthersUnchanged(id)
  /\ lastResult'.op = "deregisterPhoneNumber" =>
       LET id == lastResult'.params.id IN
       /\ lastResult'.result = ThrottleResult(phoneNumbers[id].deregisterRequests, now)
       /\ phoneNumbers'[id].registerRequests = phoneNumbers[id].registerRequests
       /\ OthersUnchanged(id)

\* C23: the result of a register call (accepted or rate_limited, with its
\* retry-after and attempt count) is determined by the register attempts of
\* that number alone, and the call leaves the number's deregister attempts and
\* every other number as they were; likewise for deregister calls
Thm_C23 == [][C23_Step]_vars

\* a registration has just succeeded on a number whose deregister throttle is
\* at its limit, while another number holds a register attempt of its own
Wit_C23 ==
  /\ lastResult.op = "registerPhoneNumber"
  /\ lastResult.result.ok
  /\ Len(pruneWindow(phoneNumbers[lastResult.params.id].deregisterRequests, now))
       >= REQUEST_LIMIT
  /\ \E other \in DOMAIN phoneNumbers \ {lastResult.params.id} :
       phoneNumbers[other].registerRequests # <<>>

(* ----------------------- routes of a phone number ---------------------- *)
\* a missing number is created by the PIN setter
setTwoStepVerificationPin_creates(pn, params) ==
  LET phone == IF params.id \in DOMAIN pn THEN pn[params.id]
               ELSE newPhone([id |-> params.id, displayPhoneNumber |-> params.id], 0)
  IN [pn |-> PutEntry(pn, params.id, Put(phone, "twoStepVerificationPin", params.pin)),
      returned |-> params.pin]

\* the store that setTwoStepVerificationPin leaves and what it returns
setTwoStepVerificationPin(pn, params) ==
  IF params.id \notin DOMAIN pn THEN [pn |-> pn, returned |-> Undefined]
  ELSE [pn |-> PutEntry(pn, params.id,
                        Put(pn[params.id], "twoStepVerificationPin", params.pin)),
        returned |-> params.pin]

setIdentityKeyCheckForNumber(pn, params) ==
  IF params.id \notin DOMAIN pn THEN [pn |-> pn, returned |-> FALSE]
  ELSE [pn |-> PutEntry(pn, params.id,
                        Put(pn[params.id], "identityKeyCheckEnabled",
                            params.enableIdentityKeyCheck)),
        returned |-> TRUE]

\* POST /:id/request_code; random is the code drawn when none is given
postRequestCode(pn, id, body, random, t) ==
  IF ~(Has(body, "code_method") /\ body.code_method \in {"SMS", "VOICE"})
       \/ ~Has(body, "language")
  THEN [pn |-> pn,
        response |-> simple(400, "code_method_SMS_or_VOICE_and_language_required")]
  ELSE IF id \notin DOMAIN pn
  THEN [pn |-> pn, response |-> simple(404, "phone_not_found")]
  ELSE LET code == IF Has(body, "code_override") THEN body.code_override ELSE random IN
       [pn |-> PutEntry(pn, id, requestPhoneVerificationCode(pn[id], code, body.code_method,
                                                             body.language, t)),
        response |-> [status |-> 200,
                      body |-> [success |-> TRUE,
                                sandbox |-> [verification_code |-> code]]]]

\* POST /:id/verify_code
postVerifyCode(pn, id, body) ==
  IF ~Has(body, "code") THEN [pn |-> pn, response |-> simple(400, "code_required")]
  ELSE IF codeMatches(pn, id, body.code)
  THEN [pn |-> PutEntry(pn, id, verifyPhoneNumberCode(pn[id])), response |-> success]
  ELSE [pn |-> pn,
        response |-> [status |-> 400, body |-> [success |-> FALSE, error |-> "invalid_code"]]]

\* POST /:id/two_step_verification
postTwoStepVerification(pn, id, body) ==
  IF ~Truthy(body, "pin") THEN [pn |-> pn, response |-> simple(400, "pin_required")]
  ELSE LET saved == setTwoStepVerificationPin(pn, [id |-> id, pin |-> body.pin]) IN
       IF ~IsTruthy(saved.returned)
       THEN [pn |-> saved.pn, response |-> simple(404, "phone_not_found")]
       ELSE [pn |-> saved.pn, response |-> success]

\* POST /:id: the two-step PIN, or the webhook subscription of the number
postPhone(pn, id, body, t) ==
  IF Has(body, "pin") /\ ~Has(body, "webhook_configuration")
  THEN LET saved == setTwoStepVerificationPin(pn, [id |-> id, pin |-> body.pin]) IN
       IF ~IsTruthy(saved.returned)
       THEN [pn |-> saved.pn, response |-> simple(404, "phone_not_found")]
       ELSE [pn |-> saved.pn, response |-> success]
  ELSE IF ~Has(body, "webhook_configuration")
  THEN [pn |-> upsertPhoneNumber(pn, [id |-> id, displayPhoneNumber |-> ""], t),
        response |-> success]
  ELSE [pn |-> upsertPhoneNumber(pn,
                 [id |-> id, displayPhoneNumber |-> "",
                  webhookConfiguration |->
                    [overrideCallbackUri |-> opt(body.webhook_configuration,
                                                 "override_callback_uri"),
                     verifyToken |-> opt(body.webhook_configuration, "verify_token")]], t),
        response |-> success]

\* POST /:id/settings
postSettings(pn, id, body) ==
  IF ~Has(body, "user_identity_change")
  THEN [pn |-> pn,
        response |-> simple(400, "user_identity_change.enable_identity_key_check_required")]
  ELSE LET ok == setIdentityKeyCheckForNumber(pn,
                   [id |-> id,
                    enableIdentityKeyCheck |->
                      body.user_identity_change.enable_identity_key_check])
       IN IF ~ok.returned THEN [pn |-> ok.pn, response |-> simple(404, "phone_not_found")]
          ELSE [pn |-> ok.pn, response |-> success]

RequestCodeBodies ==
  {[code_method |-> "SMS", language |-> "en_US"],
   [code_method |-> "SMS", language |-> "en_US", code_override |-> "111111"],
   [code_method |-> "EMAIL", language |-> "en_US"]}
VerifyCodeBodies == {[code |-> c] : c \in Codes} \cup {EmptyObject}
TwoStepBodies == {[pin |-> "123456"], [pin |-> ""]}
PhoneBodies ==
  {EmptyObject, [pin |-> "123456"], [pin |-> ""],
   [webhook_configuration |-> [override_callback_uri |-> "https://p"]],
   [pin |-> "123456", webhook_configuration |-> [override_callback_uri |-> "https://p"]]}
SettingsBodies ==
  {[user_identity_change |-> [enable_identity_key_check |-> b]] : b \in BOOLEAN}
    \cup {EmptyObject}

\* a route of a number has answered: the stores it leaves and the record of the call
Answered(op, id, body, r) ==
  /\ phoneNumbers' = r.pn
  /\ lastResult' = [op |-> op, id |-> id, body |-> body,
                    known |-> id \in DOMAIN phoneNumbers, response |-> r.response]
  /\ UNCHANGED <<handlerVars, now, limitVars, wabas, runtimeConfig, attemptsMade, marketingVars>>

PostRequestCode ==
  \E id \in PhoneIds, body \in RequestCodeBodies, random \in {"222222"} :
    Answered("POST /:id/request_code", id, body, postRequestCode(phoneNumbers, id, body, random, now))

PostVerifyCode ==
  \E id \in PhoneIds, body \in VerifyCodeBodies :
    Answered("POST /:id/verify_code", id, body, postVerifyCode(phoneNumbers, id, body))

PostTwoStepVerification ==
  \E id \in PhoneIds, body \in TwoStepBodies :
    Answered("POST /:id/two_step_verification", id, body,
             postTwoStepVerification(phoneNumbers, id, body))

PostPhone ==
  \E id \in PhoneIds, body \in PhoneBodies :
    Answered("POST /:id", id, body, postPhone(phoneNumbers, id, body, now))

PostSettings ==
  \E id \in PhoneIds, body \in SettingsBodies :
    Answered("POST /:id/settings", id, body, postSettings(phoneNumbers, id, body))

\* number p1 exists, number p2 does not
InitPhoneRoutes ==
  /\ InitIdle /\ InitNoSends /\ InitMarketing /\ InitStores /\ InitNoRequests
  /\ wabas = <<>>
  /\ runtimeConfig = initialRuntimeConfig
  /\ attemptsMade = 0
  /\ phoneNumbers = [id \in {"p1"} |-> newPhone([id |-> "p1", displayPhoneNumber |-> "+15550001"], 0)]

SpecPhoneRoutes ==
  /\ InitPhoneRoutes
  /\ [][PostRequestCode \/ PostVerifyCode \/ PostTwoStepVerification \/ PostPhone
          \/ PostSettings]_vars

\* the call is a code request, a code verification, a PIN call or an
\* identity-check call that passed the validation of its body
LifecycleCall(r) ==
  \/ r.op \in {"POST /:id/request_code", "POST /:id/verify_code",
               "POST /:id/two_step_verification", "POST /:id/settings"}
       /\ ~(r.response.status = 400 /\ r.response.body.error
              \in {"code_method_SMS_or_VOICE_and_language_required", "code_required",
                   "pin_required", "user_identity_change.enable_identity_key_check_required"})
  \/ r.op = "POST /:id" /\ Has(r.body, "pin") /\ ~Has(r.body, "webhook_configuration")

C24_Step ==
  (lastResult'.op # "none" /\ LifecycleCall(lastResult') /\ ~lastResult'.known)
    => phoneNumbers' = phoneNumbers

\* C24: a code request, a code verification, a two-step PIN call or an
\* identity-check settings call that names a number the store does not hold
\* leaves the store of numbers exactly as it was: no record is created
Thm_C24 == [][C24_Step]_vars

\* a PIN call has just named the unknown number p2, and p2 is still unknown
Wit_C24 ==
  /\ lastResult.op \in {"POST /:id", "POST /:id/two_step_verification"}
  /\ Has(lastResult.body, "pin")
  /\ lastResult.body.pin = "123456"
  /\ ~Has(lastResult.body, "webhook_configuration")
  /\ ~lastResult.known
  /\ lastResult.id \notin DOMAIN phoneNumbers

\* C25: a code request, a code verification, a two-step PIN call and an
\* identity-check settings call that name a number the store does not hold
\* are each answered as not found (404 phone_not_found); in particular the
\* verification is not answered as a code mismatch
Cex_C25 ==
  (lastResult.op # "none" /\ LifecycleCall(lastResult) /\ ~lastResult.known)
    => /\ lastResult.response.status = 404
       /\ lastResult.response.body.error = "phone_not_found"

(* ----------------------- claims: template creation --------------------- *)
\* inputs of createTemplate: flat text only, components only, both in
\* agreement (as POST /:wabaId/message_templates passes them), both in
\* disagreement, and neither
CreationInputs ==
  LET named(fields) == Spread([name |-> "Promo", languageCode |-> "en"], fields) IN
  {named([bodyText |-> "Hi"]),
   named([bodyText |-> "Hi", headerText |-> "Head", footerText |-> "Foot"]),
   named([bodyText |-> "Hi", headerText |-> ""]),
   named([bodyText |-> ""]),
   named([components |-> <<[type |-> "HEADER", format |-> "TEXT", text |-> "Head"],
                           [type |-> "BODY", text |-> "Hi"],
                           [type |-> "FOOTER", text |-> "Foot"]>>]),
   named([components |-> <<[type |-> "HEADER", format |-> "IMAGE"],
                           [type |-> "BODY", text |-> "Hi"],
                           [type |-> "BODY", text |-> "Again"]>>]),
   named([components |-> <<[type |-> "HEADER", format |-> "TEXT", text |-> "Head"]>>]),
   named([bodyText |-> "Hi", components |-> <<[type |-> "BODY", text |-> "Hi"]>>]),
   named([bodyText |-> "Hi",
          components |-> <<[type |-> "HEADER", format |-> "TEXT", text |-> "Head"]>>]),
   named(EmptyObject)}

CreationSuffixes == {"a1b2c3", "z9y8x7"}

CreateTemplateFrom ==
  \E input \in CreationInputs, random \in CreationSuffixes :
    /\ templates' = createTemplate(templates, input, now, random)
    /\ lastResult' = [op |-> "createTemplate", input |-> input,
                      threw |-> createTemplateThrows(input),
                      id |-> <<"tpl", now, random>>, before |-> templates]
    /\ UNCHANGED <<now, limitVars, routingVars, marketingVars, policyContacts, events,
                   requestVars, busVars>>

\* creations and reads of the template store
SpecCreate ==
  /\ InitAll
  /\ [][CreateTemplateFrom \/ ListTemplates \/ TickTemplates]_vars

\* a creation has just stored a template
Created == lastResult.op = "createTemplate" /\ ~lastResult.threw
CreatedTemplate == templateById(templates, lastResult.id)
FlatFields == {"bodyText", "headerText", "footerText"}
OnlyFlatText == ~Has(lastResult.input, "components")
OnlyComponents == Has(lastResult.input, "components") /\ DOMAIN lastResult.input \cap FlatFields = {}

\* the component type of a flat text field
TypeOfField(field) ==
  IF field = "bodyText" THEN "BODY" ELSE IF field = "headerText" THEN "HEADER" ELSE "FOOTER"

\* the positions of the components of a type
PositionsOf(components, type) == {i \in 1..Len(components) : components[i].type = type}

\* the positions of the components of a type that carry text
TextPositionsOf(components, type) ==
  {i \in PositionsOf(components, type) :
     Has(components[i], "text") /\ components[i].text # ""}

\* given flat text only, the components are one per non-empty field, with its text
SynthesizedComponents ==
  (Created /\ OnlyFlatText) =>
    LET given == {f \in FlatFields : Truthy(lastResult.input, f)}
        components == CreatedTemplate.components
    IN /\ Len(components) = Cardinality(given)
       /\ \A f \in given :
            \E i \in 1..Len(components) :
              /\ PositionsOf(components, TypeOfField(f)) = {i}
              /\ components[i].text = lastResult.input[f]
       /\ \A f \in FlatFields \ DOMAIN lastResult.input : CreatedTemplate[f] = Undefined

\* given components only, each flat text is the text of the first component
\* of its type that carries text, and is absent when there is none
SynthesizedText ==
  (Created /\ OnlyComponents) =>
    LET components == CreatedTemplate.components IN
    /\ components = lastResult.input.components
    /\ \A f \in FlatFields :
         LET withText == TextPositionsOf(components, TypeOfField(f)) IN
         IF withText = {} THEN CreatedTemplate[f] = Undefined
         ELSE \E i \in withText :
                /\ \A j \in withText : i <= j
                /\ CreatedTemplate[f] = components[i].text

\* C26: createTemplate synthesizes the representation that was not given.
\* Given flat text only, the stored components are exactly one component per
\* non-empty text field, carrying that text, and a field that was not given
\* is absent. Given components only, bodyText, headerText and footerText are
\* the text of the first BODY, HEADER and FOOTER component that carries text,
\* which is what deriving the text from the stored components returns
Thm_C26 == SynthesizedComponents /\ SynthesizedText

\* a template has just been created from components alone, with header, body
\* and footer text taken from them
Wit_C26 ==
  /\ Created /\ OnlyComponents
  /\ CreatedTemplate.bodyText = "Hi"
  /\ CreatedTemplate.headerText = "Head"
  /\ CreatedTemplate.footerText = "Foot"

\* the template has a BODY component whose text is not empty
HasBody(tpl) == TextPositionsOf(tpl.components, "BODY") # {}

\* C27: every template in the store has a BODY component with non-empty
\* text, a creation stores a template only when it has one, and a refused
\* creation leaves the store as it was
Cex_C27 ==
  /\ \A i \in 1..Len(templates) : HasBody(templates[i])
  /\ lastResult.op = "createTemplate" /\ lastResult.threw => templates = lastResult.before

(* ----------------------- claims: marketing ledgers --------------------- *)
\* the ledger of n sends registered at time 0, one per recipient 101..100+n
sendBacklog(n) ==
  [i \in 1..n |-> marketingRecord([phoneId |-> "p1", to |-> 100 + i], 0, "k3x9q1")]

\* the ledger of n conversions recorded at time 0
conversionBacklog(n) ==
  [i \in 1..n |-> conversionEvent([waId |-> 100 + i, event |-> "purchase"], 0, "k3x9q1")]

\* each ledger holds either nothing or one entry less than its capacity,
\* with the frequency buckets of the sends it holds
InitLedgers ==
  /\ InitIdle /\ InitNoSends /\ InitRouting /\ InitStores /\ InitNoRequests
  /\ contacts = <<>>
  /\ config = initialMarketingConfig
  /\ uncheckedPairs = {}
  /\ configChanged = FALSE
  /\ \E n \in {0, LEDGER_CAP - 1} :
       /\ sends = sendBacklog(n)
       /\ frequencyBuckets =
            [key \in {<<"p1", 100 + i>> : i \in 1..n} |-> <<sendBacklog(n)[key[2] - 100]>>]
  /\ \E n \in {0, LEDGER_CAP - 1} : conversions = conversionBacklog(n)

\* the entries of a ledger made after time 0
MadeSince(ledger, field) == Cardinality({i \in 1..Len(ledger) : ledger[i][field] > 0})

RegisterMarketingSendLedger ==
  \E params \in {[phoneId |-> "p1", to |-> to] : to \in MarketingRecipients},
     random \in RandomSuffixes :
    /\ MadeSince(sends, "sendTimestamp") < MaxMarketingSends
    /\ sends' = capLedger(Append(sends, marketingRecord(params, now, random)))
    /\ frequencyBuckets' = registerMarketingSend(frequencyBuckets, config, params, now, random)
    /\ uncheckedPairs' =
         IF FrequencyAllowedJustBefore(params.phoneId, params.to) THEN uncheckedPairs
         ELSE uncheckedPairs \cup {<<params.phoneId, params.to>>}
    /\ lastResult' = [op |-> "registerMarketingSend", params |-> params]
    /\ UNCHANGED <<handlerVars, now, limitVars, routingVars, contacts, config, configChanged,
                   conversions>>

ConversionParams ==
  {[waId |-> r, event |-> "purchase"] : r \in MarketingRecipients}
    \cup {[waId |-> 1, event |-> "purchase", sendId |-> <<"mkt", 0, "k3x9q1">>, value |-> 10,
           currency |-> "USD"]}

RecordMarketingConversion ==
  \E params \in ConversionParams, random \in RandomSuffixes :
    /\ MadeSince(conversions, "createdAt") < MaxConversions
    /\ conversions' = recordMarketingConversion(conversions, params, now, random)
    /\ lastResult' = [op |-> "recordMarketingConversion", params |-> params]
    /\ UNCHANGED <<handlerVars, now, limitVars, routingVars, contacts, sends, frequencyBuckets,
                   config, uncheckedPairs, configChanged>>

LedgerInstants == {1, 2}

TickLedgers ==
  /\ \E t \in LedgerInstants : t > now /\ now' = t
  /\ lastResult' = [op |-> "none"]
  /\ UNCHANGED <<handlerVars, limitVars, routingVars, marketingVars>>

\* the two ledgers of marketing.ts
SpecLedgers ==
  /\ InitLedgers
  /\ [][RegisterMarketingSendLedger \/ RecordMarketingConversion \/ TickLedgers]_vars

\* after is before with one entry appended, without its oldest entries beyond capacity
AppendedWithinCap(before, after) ==
  LET dropped == Len(before) + 1 - Len(after) IN
  /\ Len(after) = IF Len(before) < LEDGER_CAP THEN Len(before) + 1 ELSE LEDGER_CAP
  /\ \A i \in 1..(Len(after) - 1) : after[i] = before[i + dropped]

C28_Step ==
  /\ Len(sends') <= LEDGER_CAP
  /\ Len(conversions') <= LEDGER_CAP
  /\ lastResult'.op = "registerMarketingSend" =>
       /\ AppendedWithinCap(sends, sends')
       /\ sends'[Len(sends')].to = lastResult'.params.to
       /\ sends'[Len(sends')].sendTimestamp = now
  /\ lastResult'.op = "recordMarketingConversion" =>
       /\ AppendedWithinCap(conversions, conversions')
       /\ conversions'[Len(conversions')].waId = lastResult'.params.waId
       /\ conversions'[Len(conversions')].createdAt = now

\* C28: the send ledger and the conversion ledger never hold more than 500
\* entries; a registerMarketingSend or recordMarketingConversion appends its
\* entry at the end and, when the ledger was full, removes the oldest entry,
\* leaving the others in their order
Thm_C28 == [][C28_Step]_vars

\* both ledgers are full and each has lost its oldest entry to a later one
Wit_C28 ==
  /\ Len(sends) = LEDGER_CAP
  /\ Len(conversions) = LEDGER_CAP
  /\ sends[1] = sendBacklog(2)[2]
  /\ conversions[1] = conversionBacklog(2)[2]
  /\ sends[LEDGER_CAP].sendTimestamp > 0
  /\ conversions[LEDGER_CAP].createdAt > 0

(* -------------------------- claims: send costs ------------------------- *)
\* sends of every category to a known recipient, and marketing sends to fresh ones
CostedSends ==
  {[to |-> 1, category |-> c] : c \in Categories}
    \cup {[to |-> TIER_LIMITS["TIER_100K"] + i, category |-> "MARKETING"] : i \in {1, 2}}

RegisterSendOfCategory ==
  \E p \in LimitPhones, params \in CostedSends :
    /\ sendsMade < MaxExtraSends
    /\ states' = registerSend(states, p, params.to, params.category, now)
    /\ lastResult' = [op |-> "registerSend", phoneId |-> p, to |-> params.to, now |-> now,
                      category |-> params.category,
                      checked |-> AllowedJustBefore(p, params.to, now)]
    /\ sendsMade' = sendsMade + 1
    /\ UNCHANGED <<handlerVars, now, routingVars, marketingVars>>

\* the tracker under sends of all categories, evaluations and summaries
SpecCost ==
  /\ InitLimitSpec
  /\ [][Tick \/ EvaluateMessagingLimit \/ RegisterSendOfCategory
          \/ GetMessagingSummaryForPhone]_vars

\* the flat cost of a category, in thousandths of a US dollar
FlatCost(category) ==
  CASE category = "MARKETING" -> 50
    [] category = "UTILITY" -> 30
    [] category = "AUTHENTICATION" -> 20
    [] category = "UNKNOWN" -> 25

\* the send events and the running total of a number, before it has a state
SendsOfPhone(st, p) == IF p \in DOMAIN st THEN st[p].sends ELSE <<>>
TotalOfPhone(st, p) == IF p \in DOMAIN st THEN st[p].totalCostUsd ELSE 0

C29_Step ==
  /\ lastResult'.op = "registerSend" =>
       LET p == lastResult'.phoneId
           after == SendsOfPhone(states', p)
           event == after[Len(after)]
       IN /\ after = Append(SendsOfPhone(states, p), event)
          /\ event.to = lastResult'.to
          /\ event.category = lastResult'.category
          /\ event.timestamp = now
          /\ event.costUsd = FlatCost(lastResult'.category)
          /\ TotalOfPhone(states', p) = TotalOfPhone(states, p) + FlatCost(lastResult'.category)
          /\ \A q \in DOMAIN states \ {p} : states'[q] = states[q]
  /\ lastResult'.op # "registerSend" =>
       \A p \in DOMAIN states' : TotalOfPhone(states', p) = TotalOfPhone(states, p)

\* C29: every registerSend appends exactly one event to the sends of its
\* number, carrying the flat cost of its category (MARKETING 50, UTILITY 30,
\* AUTHENTICATION 20, UNKNOWN 25 thousandths of a dollar), and adds that cost
\* to the running total; no other step changes a running total, so the total
\* is the sum of the costs of all sends ever registered, pruned ones included
Thm_C29 == [][C29_Step]_vars

\* a marketing send nobody evaluated has just been registered for a number
\* whose earlier sends were pruned from the window and still count in the total
Wit_C29 ==
  /\ lastResult.op = "registerSend"
  /\ ~lastResult.checked
  /\ lastResult.category = "MARKETING"
  /\ Len(states[lastResult.phoneId].sends) = 1
  /\ states[lastResult.phoneId].totalCostUsd > 50

(* ------------------- claims: publishes inside publishes ---------------- *)
\* the event a subscriber publishes when it is called with an event of a caller
followUp(event) ==
  [direction |-> "system", type |-> "config.update", source |-> "subscriber",
   payload |-> event.payload]

RECURSIVE notifyFrom(_, _, _, _, _)
RECURSIVE publish(_, _, _, _)

\* the loop of addEvent over the subscribers from position i on: each one is
\* called with the event, and a subscriber that publishes runs its own
\* addEvent to the end before the loop goes on. bus is [events, deliveries,
\* published]
notifyFrom(bus, subs, event, i, t) ==
  IF i > Len(subs) THEN bus
  ELSE LET called == [bus EXCEPT !.deliveries =
                        Append(@, [subscriber |-> subs[i].id, event |-> event.id])]
           returned == IF subs[i].republishes /\ event.source # "subscriber"
                       THEN publish(called, subs, followUp(event), t)
                       ELSE called
       IN notifyFrom(returned, subs, event, i + 1, t)

\* addEvent with subscribers that may publish; the id suffix drawn for an
\* event is the number of the publish
publish(bus, subs, event, t) ==
  LET random == bus.published + 1
      pushed == [bus EXCEPT !.events = addEvent(@, event, t, random),
                            !.published = @ + 1]
  IN notifyFrom(pushed, subs, enriched(event, t, random), 1, t)

\* a subscriber is added; it may be one that publishes an event of its own
\* whenever it is called with an event of a caller
SubscribeCallback ==
  \E republishes \in BOOLEAN :
    /\ Cardinality(SubscriberIds) < MaxSubscribers
    /\ subscribers' = subscribe(subscribers, [id |-> Cardinality(SubscriberIds) + 1,
                                               throws |-> FALSE,
                                               republishes |-> republishes])
    /\ lastResult' = [op |-> "subscribe"]
    /\ UNCHANGED <<now, limitVars, routingVars, marketingVars, storeVars, requestVars,
                   deliveries, unsubscribed, published>>

\* the numbers of the events that callers other than subscribers have published
PublishedByCallers == Cardinality({i \in 1..Len(events) : events[i].source # "subscriber"})

AddEventNested ==
  LET bus == publish([events |-> events, deliveries |-> deliveries, published |-> published],
                     subscribers, numberedEvent(PublishedByCallers + 1), now)
  IN /\ PublishedByCallers < MaxObserved
     /\ events' = bus.events
     /\ deliveries' = bus.deliveries
     /\ published' = bus.published
     /\ lastResult' = [op |-> "addEvent",
                       returned |-> enriched(numberedEvent(PublishedByCallers + 1), now,
                                             published + 1)]
     /\ UNCHANGED <<now, limitVars, routingVars, marketingVars, policyContacts, templates,
                    requestVars, subscribers, unsubscribed>>

\* the event store with subscribers that publish
SpecNested ==
  /\ InitAll
  /\ [][SubscribeCallback \/ Unsubscribe \/ AddEventNested \/ TickEvents]_vars

\* the position of an event in the log
PositionInLog(id) == CHOOSE i \in 1..Len(events) : events[i].id = id

\* every subscriber was called with the events in the order of the log
DeliveredInLogOrder ==
  \A k, l \in 1..Len(deliveries) :
    (k < l /\ deliveries[k].subscriber = deliveries[l].subscriber)
      => PositionInLog(deliveries[k].event) < PositionInLog(deliveries[l].event)

\* the calls made for one event are not interrupted by calls for another
NotInterleaved ==
  \A k, l \in 1..Len(deliveries) :
    (k < l /\ deliveries[k].event = deliveries[l].event)
      => \A m \in k..l : deliveries[m].event = deliveries[k].event

\* C30: every subscriber receives the events in the order in which they were
\* inserted into the log, and the notifications of one publish are not
\* interleaved with those of another, also when a subscriber publishes from
\* inside its callback
Cex_C30 == DeliveredInLogOrder /\ NotInterleaved

(* ------------------------ the registration route ----------------------- *)
allowedDataLocalizationRegions ==
  {"AU", "ID", "IN", "JP", "SG", "KR", "DE", "CH", "GB", "BR", "BH", "ZA", "AE", "CA"}

\* the PINs of requests that consist of digits only
DigitStrings == {"123456", "654321", "12345"}

\* pin.length === 6 && /^\d{6}$/.test(pin), for a string
isSixDigits(pin) == Len(pin) = 6 /\ pin \in DigitStrings

\* the 429 answer of the registration routes
throttled(message, result) ==
  [status |-> 429,
   body |-> [error |-> [message |-> message, code |-> 133016, error_subcode |-> 133016,
                        is_transient |-> FALSE],
             sandbox |-> [retry_after_ms |-> result.retryAfterMs,
                          attempts_in_window |-> result.attemptsInWindow,
                          window_ms |-> REQUEST_WINDOW_MS]]]

\* the number is created before the request is validated
postRegister_upsertsFirst(pn, id, body, t) ==
  LET ensured == IF id \in DOMAIN pn THEN pn
                 ELSE upsertPhoneNumber(pn, [id |-> id, displayPhoneNumber |-> id], t)
  IN
  IF ~(Has(body, "messaging_product") /\ body.messaging_product = "whatsapp")
  THEN [pn |-> ensured, response |-> simple(400, "messaging_product_whatsapp_required")]
  ELSE IF ~(Has(body, "pin") /\ isSixDigits(body.pin))
  THEN [pn |-> ensured, response |-> simple(400, "pin_must_be_6_digits")]
  ELSE IF Has(body, "data_localization_region")
            /\ toUpperCase(body.data_localization_region) \notin allowedDataLocalizationRegions
  THEN [pn |-> ensured, response |-> simple(400, "unsupported_data_localization_region")]
  ELSE LET params0 == [id |-> id, pin |-> body.pin]
           params == IF Has(body, "data_localization_region")
                     THEN Put(params0, "dataLocalizationRegion",
                              toUpperCase(body.data_localization_region))
                     ELSE params0
           r == registerPhoneNumber(ensured[id], params, t)
       IN IF ~r.result.ok
          THEN [pn |-> PutEntry(ensured, id, r.phone),
                response |-> throttled("Registration limit reached for this phone number",
                                       r.result)]
          ELSE [pn |-> PutEntry(ensured, id, r.phone),
                response |-> [status |-> 200,
                              body |-> [success |-> TRUE,
                                        registration_status |-> "registered",
                                        data_localization_region |->
                                          orNull(params, "dataLocalizationRegion")]]]

\* POST /:id/register: the store it leaves and its response
postRegister(pn, id, body, t) ==
  IF ~(Has(body, "messaging_product") /\ body.messaging_product = "whatsapp")
  THEN [pn |-> pn, response |-> simple(400, "messaging_product_whatsapp_required")]
  ELSE IF ~(Has(body, "pin") /\ isSixDigits(body.pin))
  THEN [pn |-> pn, response |-> simple(400, "pin_must_be_6_digits")]
  ELSE IF Has(body, "data_localization_region")
            /\ toUpperCase(body.data_localization_region) \notin allowedDataLocalizationRegions
  THEN [pn |-> pn, response |-> simple(400, "unsupported_data_localization_region")]
  ELSE LET ensured == IF id \in DOMAIN pn THEN pn
                      ELSE upsertPhoneNumber(pn, [id |-> id, displayPhoneNumber |-> id], t)
           params0 == [id |-> id, pin |-> body.pin]
           params == IF Has(body, "data_localization_region")
                     THEN Put(params0, "dataLocalizationRegion",
                              toUpperCase(body.data_localization_region))
                     ELSE params0
           r == registerPhoneNumber(ensured[id], params, t)
       IN IF ~r.result.ok
          THEN [pn |-> PutEntry(ensured, id, r.phone),
                response |-> throttled("Registration limit reached for this phone number",
                                       r.result)]
          ELSE [pn |-> PutEntry(ensured, id, r.phone),
                response |-> [status |-> 200,
                              body |-> [success |-> TRUE,
                                        registration_status |-> "registered",
                                        data_localization_region |->
                                          orNull(params, "dataLocalizationRegion")]]]

\* POST /:id/deregister
postDeregister(pn, id, t) ==
  IF id \notin DOMAIN pn THEN [pn |-> pn, response |-> simple(404, "phone_not_found")]
  ELSE LET r == deregisterPhoneNumber(pn[id], t) IN
       IF ~r.result.ok
       THEN [pn |-> PutEntry(pn, id, r.phone),
             response |-> throttled("Deregistration limit reached for this phone number",
                                    r.result)]
       ELSE [pn |-> PutEntry(pn, id, r.phone),
             response |-> [status |-> 200,
                           body |-> [success |-> TRUE,
                                     registration_status |-> "deregistered"]]]

RegisterBodies ==
  LET whatsapp(fields) == Spread([messaging_product |-> "whatsapp"], fields) IN
  {whatsapp([pin |-> "123456"]),
   whatsapp([pin |-> "654321", data_localization_region |-> "br"]),
   whatsapp([pin |-> "12345"]),
   whatsapp([pin |-> "12a456", data_localization_region |-> "br"]),
   whatsapp([pin |-> "654321", data_localization_region |-> "us"]),
   whatsapp(EmptyObject),
   [pin |-> "123456"]}

\* a registration route has answered
AnsweredRegistration(op, id, body, r) ==
  /\ attemptsMade < MaxAttempts
  /\ attemptsMade' = attemptsMade + 1
  /\ phoneNumbers' = r.pn
  /\ lastResult' = [op |-> op, id |-> id, body |-> body,
                    known |-> id \in DOMAIN phoneNumbers, response |-> r.response]
  /\ UNCHANGED <<handlerVars, now, limitVars, wabas, runtimeConfig, marketingVars>>

PostRegister ==
  \E id \in PhoneIds, body \in RegisterBodies :
    AnsweredRegistration("POST /:id/register", id, body,
                         postRegister(phoneNumbers, id, body, now))

PostDeregister ==
  \E id \in PhoneIds :
    AnsweredRegistration("POST /:id/deregister", id, EmptyObject,
                         postDeregister(phoneNumbers, id, now))

\* number p1 exists, with its register throttle empty or one attempt short
\* of the limit; number p2 does not exist
InitRegisterRoute ==
  /\ InitIdle /\ InitNoSends /\ InitMarketing /\ InitStores /\ InitNoRequests
  /\ wabas = <<>>
  /\ runtimeConfig = initialRuntimeConfig
  /\ attemptsMade = 0
  /\ \E k \in {0, REQUEST_LIMIT - 1} :
       phoneNumbers = [id \in {"p1"} |-> phoneWithAttempts(k, 0)]

SpecRegisterRoute ==
  /\ InitRegisterRoute
  /\ [][PostRegister \/ PostDeregister \/ TickThrottle]_vars

\* the request names a PIN that is not six digits, or a region that is not allowed
InvalidRegistration(body) ==
  \/ ~Has(body, "pin")
  \/ body.pin \notin {"123456", "654321"}
  \/ Has(body, "data_localization_region") /\ body.data_localization_region \notin {"br"}

C31_Step ==
  (lastResult'.op = "POST /:id/register" /\ InvalidRegistration(lastResult'.body))
    => /\ lastResult'.response.status = 400
       /\ phoneNumbers' = phoneNumbers

\* C31: a registration request whose PIN is not exactly six digits, or whose
\* region is outside the allowed set, is answered 400 and leaves the store of
\* numbers exactly as it was: no number is created, no attempt is recorded,
\* and registered, PIN and region are unchanged
Thm_C31 == [][C31_Step]_vars

\* a request with a region that is not allowed has just been refused for the
\* unknown number p2, which is still unknown, while p1 keeps its region
Wit_C31 ==
  /\ lastResult.op = "POST /:id/register"
  /\ lastResult.id = "p2"
  /\ Has(lastResult.body, "data_localization_region")
  /\ lastResult.body.data_localization_region = "us"
  /\ "p2" \notin DOMAIN phoneNumbers
  /\ Has(phoneNumbers["p1"], "dataLocalizationRegion")
  /\ phoneNumbers["p1"].dataLocalizationRegion = "BR"

(* ------------------------- claims: retry-after ------------------------- *)
\* the attempt history that the operation of the last call is throttled by
ThrottledHistory ==
  IF lastResult.op = "registerPhoneNumber"
  THEN phoneNumbers[lastResult.params.id].registerRequests
  ELSE phoneNumbers[lastResult.params.id].deregisterRequests

\* C32: when a register or deregister attempt at time now has just been
\* rejected as rate_limited with retryAfterMs = r, the attempts that count
\* against the next attempt of that operation on that number at time now + r
\* are fewer than the limit: that attempt is not rate-limited
Cex_C32 ==
  (/\ lastResult.op \in {"registerPhoneNumber", "deregisterPhoneNumber"}
   /\ ~lastResult.result.ok
   /\ lastResult.result.error = "rate_limited")
    => Len(SelectSeq(ThrottledHistory,
                     LAMBDA ts : ts >= now + lastResult.result.retryAfterMs - REQUEST_WINDOW_MS))
         < REQUEST_LIMIT

(* ---------------------- claims: the pending code ----------------------- *)
\* upsertPhoneNumber as the routes that only name a number call it, and as
\* the phone-number API calls it with a verified name
UpsertPhoneNumberPlain ==
  \E input \in {[id |-> id, displayPhoneNumber |-> ""] : id \in PhoneIds}
               \cup {[id |-> "p1", displayPhoneNumber |-> "+15550001",
                       verifiedName |-> "Shop"]} :
    /\ phoneNumbers' = upsertPhoneNumber(phoneNumbers, input, now)
    /\ lastResult' = [op |-> "upsertPhoneNumber", id |-> input.id]
    /\ UNCHANGED <<handlerVars, now, limitVars, wabas, runtimeConfig, attemptsMade, marketingVars>>

\* the whole life of a number: creation, verification and registration
SpecLifecycle ==
  /\ InitAll
  /\ [][UpsertPhoneNumberPlain \/ RequestPhoneVerificationCode \/ VerifyPhoneNumberCode
          \/ RegisterPhoneNumber \/ DeregisterPhoneNumber]_vars

\* C33: every number holds a pending verification code if and only if its
\* verificationStatus is PENDING
Thm_C33 ==
  \A id \in DOMAIN phoneNumbers :
    ("pendingVerificationCode" \in DOMAIN phoneNumbers[id])
      <=> (phoneNumbers[id].verificationStatus = "PENDING")

\* a code has just been verified on a number that was registered while the
\* code was pending, and another number is waiting for its code
Wit_C33 ==
  /\ lastResult.op = "verifyPhoneNumberCode"
  /\ lastResult.returned
  /\ phoneNumbers[lastResult.id].verificationStatus = "VERIFIED"
  /\ phoneNumbers[lastResult.id].registered
  /\ \E other \in DOMAIN phoneNumbers : phoneNumbers[other].verificationStatus = "PENDING"

(* ------------------- claims: the reason of a rejection ----------------- *)
\* C34: every stored template whose status is REJECTED has a rejection
\* reason, whatever createTemplate, updateTemplate and updateTemplateStatus
\* calls were made, patches with rejectionReason = null included.
Cex_C34 ==
  \A i \in 1..Len(templates) :
    templates[i].status = "REJECTED" => IsTruthy(templates[i].rejectionReason)

(* ------------------- claims: text and components agree ----------------- *)
\* patches of the flat text fields and of the components
TextPatches ==
  {[bodyText |-> "bye"],
   [headerText |-> "head"],
   [footerText |-> Null],
   [components |-> <<[type |-> "HEADER", text |-> "top"], [type |-> "BODY", text |-> "new"]>>],
   [components |-> <<[type |-> "BODY", text |-> "new"]>>]}

UpdateTemplateText ==
  \E id \in TemplateIds \cup {UnknownTemplateId}, patch \in TextPatches :
    /\ templates' = updateTemplate(templates, id, patch, now)
    /\ lastResult' = [op |-> "updateTemplate", id |-> id, found |-> id \in TemplateIds,
                      patch |-> patch]
    /\ UNCHANGED <<now, limitVars, routingVars, marketingVars, policyContacts, events,
                   requestVars, busVars>>

\* getTemplateById: the read shapes the template in the store; updated tells
\* whether the call directly before was an updateTemplate of the same template
GetTemplateById ==
  \E id \in TemplateIds :
    /\ templates' = setTemplate(templates, ensureTemplateShape(templateById(templates, id), now))
    /\ lastResult' = [op |-> "getTemplateById", id |-> id,
                      updated |-> /\ lastResult.op = "updateTemplate"
                                  /\ lastResult.found
                                  /\ lastResult.id = id]
    /\ UNCHANGED <<now, limitVars, routingVars, marketingVars, policyContacts, events,
                   requestVars, busVars>>

\* templates created from flat text or from components, then patched and read
SpecTemplateText ==
  /\ InitAll
  /\ [][CreateTemplate \/ UpdateTemplateText \/ GetTemplateById \/ TickTemplates]_vars

\* the flat field is the text of the first component of the type that has
\* text, and is absent when there is no such component
FlatAgrees(tpl, field, type) ==
  LET texts == {i \in 1..Len(tpl.components) :
                  tpl.components[i].type = type /\ Truthy(tpl.components[i], "text")}
  IN IF texts = {} THEN ~IsTruthy(tpl[field])
     ELSE tpl[field] = tpl.components[CHOOSE i \in texts : \A j \in texts : i <= j].text

\* C35: after an updateTemplate followed by a read, bodyText is the text of
\* the first BODY component that has text, and likewise headerText and
\* footerText for HEADER and FOOTER.
Cex_C35 ==
  (lastResult.op = "getTemplateById" /\ lastResult.updated)
    => LET tpl == templateById(templates, lastResult.id)
       IN /\ FlatAgrees(tpl, "bodyText", "BODY")
          /\ FlatAgrees(tpl, "headerText", "HEADER")
          /\ FlatAgrees(tpl, "footerText", "FOOTER")

(* --------------------- the template listing of a WABA ------------------ *)
\* parseLimit(value, 25, 100) for a numeric query value
parseLimit(value) == IF value > 0 THEN (IF value < 100 THEN value ELSE 100) ELSE 25

\* a cursor that is null or not given; template ids are tuples
NoCursor == <<>>

\* Array.findIndex by template id, counted from 0; -1 when there is none
findIndex(list, id) ==
  LET hits == {i \in 1..Len(list) : list[i].id = id}
  IN IF hits = {} THEN -1 ELSE (CHOOSE i \in hits : \A j \in hits : i <= j) - 1

\* Array.slice(from, to) with indices counted from 0
slice(list, from, to) == SubSeq(list, from + 1, to)

\* paginateTemplates: the page and its cursors, NoCursor where there is none
paginateTemplates(list, limit, after, before) ==
  LET total == Len(list)
      start == IF after # NoCursor /\ findIndex(list, after) >= 0
               THEN findIndex(list, after) + 1 ELSE 0
      end == IF before # NoCursor /\ findIndex(list, before) >= 0
             THEN findIndex(list, before) ELSE total
      page == slice(list, start, IF end < start + limit THEN end ELSE start + limit)
      lastIndex == start + Len(page) - 1
  IN [slice |-> page,
      before |-> IF start > 0 THEN list[start].id ELSE NoCursor,
      after |-> IF lastIndex >= 0 /\ lastIndex + 1 < end THEN list[lastIndex + 2].id
                ELSE NoCursor,
      total |-> total]

\* Array.sort by updatedAt, which keeps templates of equal time in their order
sortByUpdatedAt(list, order) ==
  LET first(i, j) == \/ (IF order = "desc" THEN list[i].updatedAt > list[j].updatedAt
                                            ELSE list[i].updatedAt < list[j].updatedAt)
                     \/ list[i].updatedAt = list[j].updatedAt /\ i < j
      rank(i) == Cardinality({j \in 1..Len(list) : first(j, i)}) + 1
  IN [k \in 1..Len(list) |-> list[CHOOSE i \in 1..Len(list) : rank(i) = k]]

\* the templates GET /:id/message_templates lists for the WABA without
\* further filters, in the order asked for
listedTemplates(store, wabaId, order, t) ==
  sortByUpdatedAt(SelectSeq(listTemplates(store, t),
                            LAMBDA tpl : ~Truthy(tpl, "wabaId") \/ tpl.wabaId = wabaId),
                  order)

\* GET /:id/message_templates: the ids of the page and the paging cursors
getMessageTemplates(store, wabaId, query, t) ==
  LET page == paginateTemplates(listedTemplates(store, wabaId, query.order, t),
                                parseLimit(query.limit),
                                IF Has(query, "after") THEN query.after ELSE NoCursor,
                                IF Has(query, "before") THEN query.before ELSE NoCursor)
  IN [data |-> [i \in 1..Len(page.slice) |-> page.slice[i].id],
      before |-> page.before, after |-> page.after, total |-> page.total]

(* ------------------ claims: walking the template listing --------------- *)
MaxListed == 8

\* the second template of the store belongs to another WABA
listedInput(t) ==
  [name |-> "Promo", languageCode |-> "en", bodyText |-> "hi",
   wabaId |-> IF t = 2 THEN "w2" ELSE "w1"]

RECURSIVE storeOf(_)
\* a store of n templates, created one per millisecond
storeOf(n) ==
  IF n = 0 THEN <<>> ELSE createTemplate(storeOf(n - 1), listedInput(n), n, "a1b2c3")

InitPaging ==
  /\ InitNoSends /\ InitRouting /\ InitMarketing /\ InitNoRequests /\ InitNoEvents
  /\ policyContacts = <<>>
  /\ lastResult = [op |-> "none"]
  /\ now = MaxListed + 1
  /\ \E n \in 0..MaxListed : templates = storeOf(n)

PageLimits == {1, 2, 3}
PageOrders == {"asc", "desc"}

\* the answer to a listing request, with what the walk has seen so far
Listed(query, kind, walked, from) ==
  LET page == getMessageTemplates(templates, "w1", query, now)
  IN /\ templates' = listTemplates(templates, now)
     /\ lastResult' = [op |-> "getMessageTemplates", kind |-> kind,
                       limit |-> query.limit, order |-> query.order,
                       data |-> page.data, before |-> page.before, after |-> page.after,
                       walked |-> walked \o page.data, from |-> from]
     /\ UNCHANGED <<now, limitVars, routingVars, marketingVars, policyContacts, events,
                    requestVars, busVars>>

\* the request without a cursor
GetFirstPage ==
  \E limit \in PageLimits, order \in PageOrders :
    Listed([limit |-> limit, order |-> order], "first", <<>>, <<>>)

\* the request with the after cursor of the page before
GetNextPage ==
  /\ lastResult.op = "getMessageTemplates"
  /\ lastResult.kind \in {"first", "next"}
  /\ lastResult.after # NoCursor
  /\ Listed([limit |-> lastResult.limit, order |-> lastResult.order,
             after |-> lastResult.after], "next", lastResult.walked, lastResult.data)

\* the request with the before cursor of the current page
GetPreviousPage ==
  /\ lastResult.op = "getMessageTemplates"
  /\ lastResult.kind \in {"first", "next"}
  /\ lastResult.before # NoCursor
  /\ Listed([limit |-> lastResult.limit, order |-> lastResult.order,
             before |-> lastResult.before], "previous", <<>>, lastResult.data)

\* walking the listing of a WABA forwards and one page back
SpecPaging ==
  /\ InitPaging
  /\ [][GetFirstPage \/ GetNextPage \/ GetPreviousPage]_vars

\* the ids of the filtered, ordered list the walk goes over
ListedIds(order) ==
  LET own == SelectSeq(templates, LAMBDA tpl : ~Truthy(tpl, "wabaId") \/ tpl.wabaId = "w1")
  IN [i \in 1..Len(own) |-> IF order = "asc" THEN own[i].id ELSE own[Len(own) + 1 - i].id]

\* the position of an id in a list of ids
PlaceOf(ids, id) == CHOOSE i \in 1..Len(ids) : ids[i] = id

\* up to limit ids of the list that come directly before the page
PageBefore(ids, page, limit) ==
  LET first == PlaceOf(ids, page[1])
  IN SubSeq(ids, IF first - limit > 1 THEN first - limit ELSE 1, first - 1)

\* C36: the walk that starts without a cursor and follows the after cursors
\* until one is null has visited every template of the filtered, ordered
\* list once and in order; the request with the before cursor of a page
\* answers the page directly before it.
Cex_C36 ==
  /\ (/\ lastResult.op = "getMessageTemplates"
      /\ lastResult.kind \in {"first", "next"}
      /\ lastResult.after = NoCursor)
       => lastResult.walked = ListedIds(lastResult.order)
  /\ (/\ lastResult.op = "getMessageTemplates"
      /\ lastResult.kind = "previous"
      /\ lastResult.from # <<>>)
       => lastResult.data = PageBefore(ListedIds(lastResult.order), lastResult.from,
                                       lastResult.limit)

(* --------------------- claims: the cap on all sends -------------------- *)
MaxCappedSends == 5

\* the marketing configuration after updateMarketingConfig({maxSendsPerWindow: 3})
InitCapped ==
  /\ InitIdle /\ InitNoSends /\ InitRouting /\ InitStores /\ InitNoRequests
  /\ contacts = <<>>
  /\ sends = <<>>
  /\ frequencyBuckets = <<>>
  /\ config = updateMarketingConfig(initialMarketingConfig, [maxSendsPerWindow |-> 6])
  /\ uncheckedPairs = {}
  /\ configChanged = FALSE
  /\ conversions = <<>>

\* registerMarketingSend as POST /:id/marketing_messages calls it: directly
\* after an evaluateMarketingFrequency of the pair that allowed the send
RegisterAllowedMarketingSend ==
  \E params \in MarketingSendParams, random \in RandomSuffixes :
    /\ FrequencyAllowedJustBefore(params.phoneId, params.to)
    /\ Len(sends) < MaxCappedSends
    /\ sends' = capLedger(Append(sends, marketingRecord(params, now, random)))
    /\ frequencyBuckets' = registerMarketingSend(frequencyBuckets, config, params, now, random)
    /\ lastResult' = [op |-> "registerMarketingSend", params |-> params]
    /\ UNCHANGED <<handlerVars, now, limitVars, routingVars, contacts, config, configChanged,
                   uncheckedPairs, conversions>>

\* evaluated sends under a configuration that nothing changes
SpecCap ==
  /\ InitCapped
  /\ [][EvaluateMarketingFrequency \/ RegisterAllowedMarketingSend \/ Tick]_vars

\* the registered sends of the pair whose effective time lies in
\* [now - frequencyWindowMs, now]
SendsInWindow(p, to) ==
  {i \in 1..Len(sends) :
     LET r == sends[i]
         at == IF "scheduledFor" \in DOMAIN r THEN r.scheduledFor ELSE r.sendTimestamp
     IN /\ r.phoneId = p /\ r.to = to
        /\ at >= now - config.frequencyWindowMs /\ at <= now}

\* C37: with the configuration unchanged and every registration directly
\* preceded by an allowing evaluateMarketingFrequency, the sends ever
\* registered for a pair with effective time in [now - frequencyWindowMs, now]
\* never exceed maxSendsPerWindow, sends scheduled for the future included.
Cex_C37 ==
  \A p \in MarketingPhones, to \in MarketingRecipients :
    Cardinality(SendsInWindow(p, to)) <= config.maxSendsPerWindow

(* ------------- routes/phoneNumbers.ts: webhook configuration ----------- *)
\* POST /:id/webhook-configuration: [pn, response]; the response carries the
\* phone as stored
postWebhookConfiguration(pn, id, body, t) ==
  IF ~Has(body, "webhook_configuration")
  THEN [pn |-> pn, response |-> simple(400, "webhook_configuration_required")]
  ELSE LET updated == upsertPhoneNumber(pn,
                        [id |-> id, displayPhoneNumber |-> "",
                         webhookConfiguration |->
                           [overrideCallbackUri |-> opt(body.webhook_configuration,
                                                        "override_callback_uri"),
                            verifyToken |-> opt(body.webhook_configuration,
                                                "verify_token")]], t)
       IN [pn |-> updated,
           response |-> [status |-> 200, body |-> [success |-> TRUE, phone |-> updated[id]]]]

WebhookConfigurationBodies ==
  {EmptyObject,
   [webhook_configuration |-> [verify_token |-> "secret"]],
   [webhook_configuration |-> [override_callback_uri |-> "https://p"]],
   [webhook_configuration |-> [override_callback_uri |-> "https://q",
                               verify_token |-> "other"]]}

\* the call, with the phone as it was before it
PostWebhookConfiguration ==
  \E id \in PhoneIds, body \in WebhookConfigurationBodies :
    LET r == postWebhookConfiguration(phoneNumbers, id, body, now) IN
    /\ phoneNumbers' = r.pn
    /\ lastResult' = [op |-> "POST /:id/webhook-configuration", id |-> id, body |-> body,
                      known |-> id \in DOMAIN phoneNumbers,
                      before |-> IF id \in DOMAIN phoneNumbers THEN phoneNumbers[id]
                                 ELSE EmptyObject,
                      status |-> r.response.status]
    /\ UNCHANGED <<handlerVars, now, limitVars, wabas, runtimeConfig, attemptsMade,
                   marketingVars>>

\* numbers with a PIN and a registration whose webhook configuration is set
SpecWebhookConfiguration ==
  /\ InitPhoneRoutes
  /\ [][PostWebhookConfiguration \/ PostTwoStepVerification \/ PostPhone]_vars

\* the override callback URI of a phone, or Undefined
OverrideOf(phone) ==
  IF Has(phone, "webhookConfiguration") /\ Has(phone.webhookConfiguration, "overrideCallbackUri")
  THEN phone.webhookConfiguration.overrideCallbackUri
  ELSE Undefined

\* the field is on both phones with one value, or on neither
SameField(a, b, key) == (Has(a, key) <=> Has(b, key)) /\ (Has(a, key) => a[key] = b[key])

\* C38: an update of the webhook configuration of a known phone leaves its
\* display number, WABA, verification status, registered flag, PIN and
\* throttle histories as they were, and an update with only a verify token
\* leaves an existing override callback URI in place.
Cex_C38 ==
  (/\ lastResult.op = "POST /:id/webhook-configuration"
   /\ lastResult.known
   /\ lastResult.status = 200)
    => LET was == lastResult.before
           is == phoneNumbers[lastResult.id]
       IN /\ \A key \in {"displayPhoneNumber", "wabaId", "verificationStatus", "registered",
                         "twoStepVerificationPin", "registerRequests",
                         "deregisterRequests"} :
               SameField(was, is, key)
          /\ (/\ ~Has(lastResult.body.webhook_configuration, "override_callback_uri")
              /\ IsTruthy(OverrideOf(was)))
               => OverrideOf(is) = OverrideOf(was)

(* ----------------------- routes: PUT /api/config ----------------------- *)
MaxConfigUpdates == 3

\* getConfig returns the module's one configuration object, not a copy
getConfig == [ref |-> "runtimeConfig"]

\* what a stored value reads as while the configuration object holds cfg
valueOf(v, cfg) == IF v = getConfig THEN cfg ELSE v

\* the event PUT /api/config hands to addEvent: before is what getConfig
\* returned ahead of the update, payload what updateConfig returned, and both
\* are the configuration object itself
configUpdateEvent ==
  [direction |-> "system", type |-> "config.update", source |-> "config-api",
   payload |-> getConfig, meta |-> [before |-> getConfig]]

RuntimeConfigPatches ==
  {EmptyObject, [verifyToken |-> "fresh-token"], [targetWebhookUrl |-> "https://g"],
   [targetWebhookUrl |-> Null], [webhookAppSecret |-> "app-secret"],
   [auth |-> [mode |-> "jwt"]]}

\* PUT /api/config; was is the configuration ahead of the call
PutConfig ==
  \E patch \in RuntimeConfigPatches, random \in RandomSuffixes :
    /\ published < MaxConfigUpdates
    /\ runtimeConfig' = updateConfig(runtimeConfig, patch)
    /\ events' = addEvent(events, configUpdateEvent, now, random)
    /\ published' = published + 1
    /\ deliveries' = deliveries \o notified(subscribers, enriched(configUpdateEvent, now, random))
    /\ lastResult' = [op |-> "PUT /api/config", patch |-> patch, was |-> runtimeConfig]
    /\ UNCHANGED <<now, limitVars, phoneNumbers, wabas, attemptsMade, marketingVars,
                   policyContacts, templates, requestVars, subscribers, unsubscribed>>

\* configuration updates and the events they publish
SpecConfigEvents ==
  /\ InitAll
  /\ [][PutConfig \/ TickEvents]_vars

\* C39: the event of a configuration update holds in meta.before the values
\* from before the update and in payload the values after it, so the two
\* differ whenever the update changed a field.
Cex_C39 ==
  lastResult.op = "PUT /api/config" =>
    LET event == events[Len(events)]
        before == valueOf(event.meta.before, runtimeConfig)
        payload == valueOf(event.payload, runtimeConfig)
    IN /\ before = lastResult.was
       /\ payload = runtimeConfig
       /\ lastResult.was # runtimeConfig => before # payload

(* ------------------- routes: PUT /api/marketing/config ----------------- *)
\* bodies of PUT /api/marketing/config: zero, negative, fractional (a odd
\* number of halves) and overflowing numbers (1e999 parses to Infinity)
MarketingConfigBodies ==
  {EmptyObject}
    \cup {[frequencyWindowMs |-> w] : w \in {0, -1, 1, HOUR_MS, Infinity}}
    \cup {[maxSendsPerWindow |-> halves] : halves \in {0, -3, 1, 5, 4, Infinity}}
    \cup {[frequencyWindowMs |-> 0, maxSendsPerWindow |-> 0]}

\* PUT /api/marketing/config answers with a copy of the configuration
PutMarketingConfig ==
  \E body \in MarketingConfigBodies :
    LET updated == updateMarketingConfig(config, body) IN
    /\ config' = updated
    /\ configChanged' =
         (\/ configChanged
          \/ /\ frequencyBuckets # <<>>
             /\ \/ updated.frequencyWindowMs # config.frequencyWindowMs
                \/ updated.maxSendsPerWindow # config.maxSendsPerWindow)
    /\ lastResult' = [op |-> "PUT /api/marketing/config", body |-> body,
                      response |-> updated]
    /\ UNCHANGED <<handlerVars, now, limitVars, routingVars, contacts, sends, frequencyBuckets,
                   uncheckedPairs, conversions>>

\* the marketing configuration under updates, and the cap it gives
SpecMarketingConfig ==
  /\ InitAll
  /\ [][PutMarketingConfig \/ EvaluateMarketingFrequency \/ Tick]_vars

\* C40: after any updateMarketingConfig calls, maxSendsPerWindow is an
\* integer >= 1 and frequencyWindowMs is > 0 (and both are finite numbers).
Cex_C40 ==
  /\ config.maxSendsPerWindow \notin {Infinity, NaN}
  /\ config.maxSendsPerWindow >= 1
  /\ config.frequencyWindowMs \notin {Infinity, NaN}
  /\ config.frequencyWindowMs > 0

====
